---- MODULE Spec2Model ----
(***************************************************************************)
(* A model of the concurrent parts of querido-diario-data-processing:      *)
(*   - GOAssociacaoMunicipiosSegmenter (territory segmentation),           *)
(*   - extract_themed_excerpts_from_gazettes (themed excerpts),            *)
(*   - extract_text_from_gazettes (text extraction and indexing),          *)
(*   - get_es_query_from_themed_query (query builder),                     *)
(*   - embedding_rerank_excerpts (reranking).                              *)
(* Each subsystem has its own specification (SpecSeg, SpecThemed,          *)
(* SpecThemedTwice, SpecText, SpecQuery, SpecRerank); the variables of the *)
(* other subsystems stay idle.                                             *)
(*                                                                         *)
(* Strings are modelled as sequences of tokens: concatenation is \o, the   *)
(* Python test `a in b` is "a is a contiguous subsequence of b".           *)
(***************************************************************************)
EXTENDS Integers, Sequences, FiniteSets, TLC

VARIABLES
    \* ---- segmenter (go_associacao_municipios.py)
    territories,            \* self.territories: the registry, in its order
    raw_segments,           \* the chunks returned by text_splitter.split_text
    territory_to_text_map,  \* insertion-ordered dict: Seq of [slug, texts]
    seg_result,             \* per chunk: the value returned by its worker
    seg_pc,                 \* position of get_gazette_segments
    seg_k,                  \* loop index of the sequential loops
    gazette_segments,       \* the list get_gazette_segments returns
    \* ---- themed excerpts (gazette_themed_excerpts_extraction.py)
    theme,                  \* the theme: [index, queries]
    n_gazette_ids,          \* len(gazette_ids)
    search_hits,            \* per query and batch: the documents the search returns
    theme_index,            \* the destination index: excerpt_id -> record
    th_ids,                 \* ids, the list the call returns
    th_worker,              \* per theme query: the state of its worker
    th_collected,           \* the futures the as_completed loop has read
    th_pc,                  \* position of extract_themed_excerpts_from_gazettes
    th_run,                 \* number of the current call
    th_prev,                \* history: the outcome of the previous call, if any
    th_writes,              \* history: the index writes of the current call
    th_built,               \* history: every excerpt built, with its fragment
    th_faults,              \* whether calls to the search backend may raise
    \* ---- text extraction (gazette_text_extraction.py)
    tx_gazettes,            \* the gazettes of the call (a set, keyed by id)
    tx_territories,         \* the territories argument (the registry)
    tx_endpoint,            \* whether QUERIDO_DIARIO_FILES_ENDPOINT is set
    tx_worker,              \* per gazette: the state of process_gazette
    tx_storage,             \* the paths uploaded to the storage
    tx_index,               \* the search index: document id -> document
    tx_processed,           \* database: the (id, checksum) marked processed
    tx_ids,                 \* ids, the list the call returns
    tx_collected,           \* the futures the as_completed loop has read
    tx_pc,                  \* position of extract_text_from_gazettes
    \* ---- query builder (get_es_query_from_themed_query)
    qb_term_sets,           \* query["term_sets"]: macro-sets of term-sets of terms
    qb_term_block,          \* per macro-set and term-set: the result of its task
    qb_macro,               \* per macro-set: the state of process_macro_set
    qb_clauses,             \* macro_synonym_block["span_or"]["clauses"]
    qb_collected,           \* the macro-set futures the as_completed loop has read
    qb_es_query,            \* the value returned: <<es_query>>, <<>> before
    qb_pc,                  \* position of get_es_query_from_themed_query
    \* ---- reranking (gazette_excerpts_embedding_reranking.py)
    rr_index,               \* the theme index: excerpt_id -> record
    rr_index0,              \* history: the theme index when the call started
    rr_excerpt_ids,         \* the excerpt_ids argument
    rr_worker,              \* per submitted id: the state of process_excerpt
    rr_collected,           \* the futures the as_completed loop has read
    rr_pc,                  \* position of embedding_rerank_excerpts
    \* ---- the thread pools of extract_themed_excerpts_from_gazettes
    nf_shape,               \* the size of the call: queries, batches, macro-sets, documents
    nf_task,                \* per submitted task: its state in its pool
    nf_main                 \* the calling thread: its position and the futures read

segVars == <<territories, raw_segments, territory_to_text_map, seg_result,
             seg_pc, seg_k, gazette_segments>>

themedVars == <<theme, n_gazette_ids, search_hits, theme_index, th_ids, th_worker,
                th_collected, th_pc, th_run, th_prev, th_writes, th_built,
                th_faults>>

textVars == <<tx_gazettes, tx_territories, tx_endpoint, tx_worker, tx_storage,
              tx_index, tx_processed, tx_ids, tx_collected, tx_pc>>

queryVars == <<qb_term_sets, qb_term_block, qb_macro, qb_clauses, qb_collected,
               qb_es_query, qb_pc>>

rerankVars == <<rr_index, rr_index0, rr_excerpt_ids, rr_worker, rr_collected, rr_pc>>

nestedVars == <<nf_shape, nf_task, nf_main>>

vars == <<segVars, themedVars, textVars, queryVars, rerankVars, nestedVars>>

----------------------------------------------------------------------------
(* Generic helpers                                                         *)

Range(s) == {s[i] : i \in 1..Len(s)}

RECURSIVE SeqsUpTo(_, _)
SeqsUpTo(S, n) ==
    IF n = 0 THEN {<<>>}
    ELSE LET shorter == SeqsUpTo(S, n - 1)
         IN  shorter \cup {Append(s, x) : s \in {t \in shorter : Len(t) = n - 1}, x \in S}

\* Python `a in b` on strings.
Contains(b, a) ==
    \E i \in 0..(Len(b) - Len(a)) : SubSeq(b, i + 1, i + Len(a)) = a

Reverse(s) == [i \in 1..Len(s) |-> s[Len(s) + 1 - i]]

IsSpace(c) == c \in {" ", "\n", "\t"}

\* str.strip()
RECURSIVE lstrip(_)
lstrip(s) == IF s # <<>> /\ IsSpace(Head(s)) THEN lstrip(Tail(s)) ELSE s

strip(s) == Reverse(lstrip(Reverse(lstrip(s))))

----------------------------------------------------------------------------
(* Bounds                                                                  *)

MaxChunks == 3

\* How many times in a row the themed extraction is called.
MaxRuns == 2

\* How many gazettes one call of the text extraction is given.
MaxGazettes == 2

\* How many excerpt ids one call of the reranking is given.
MaxExcerptIds == 2

\* How many worker threads one ThreadPoolExecutor has (max_workers).
MaxWorkers == 1

----------------------------------------------------------------------------
(* Segmenter: src/segmentation/segmenters/go_associacao_municipios.py      *)

\* Territory ids, as the sequence of their characters.
IdGoiania == <<"5", "2", "0", "8", "7", "0", "7">>
IdAnapolis == <<"5", "2", "0", "1", "1", "0", "8">>
IdGoias == <<"5", "2", "0", "8", "9", "0", "5">>
IdAltoParaiso == <<"5", "2", "0", "0", "6", "0", "5">>
IdUberaba == <<"3", "1", "7", "0", "1", "0", "7">>
IdAssociation == <<"5", "2", "0", "0", "0", "0", "0">>

\* The registry: records with id, territory_name, state_code.
GoTerritories == <<
    [id |-> IdGoiania, territory_name |-> <<"Goiania">>, state_code |-> "GO"],
    [id |-> IdAnapolis, territory_name |-> <<"Anapolis">>, state_code |-> "GO"],
    [id |-> IdGoias, territory_name |-> <<"Goias">>, state_code |-> "GO"],
    [id |-> IdAltoParaiso, territory_name |-> <<"Alto", "Paraiso", "de", "Goias">>,
     state_code |-> "GO"],
    [id |-> IdUberaba, territory_name |-> <<"Uberaba">>, state_code |-> "MG"] >>

AssociationName == <<"Associacao", "dos", "Municipios", "de", "Goias">>

AssociationTerritory ==
    [id |-> IdAssociation, territory_name |-> AssociationName, state_code |-> "GO"]

\* The registries the segmenter is constructed with: with and without a
\* record of the association pseudo-territory.
Registries == {GoTerritories, Append(GoTerritories, AssociationTerritory)}

Ent(label, text) == [label_ |-> label, text |-> text]

\* The chunks of the model and what the entity recognizer finds in each
\* (doc.ents, in textual order).
ChunkTexts == {<<"c1">>, <<"c2">>, <<"c3", " ">>, <<"c4">>, <<"c5">>, <<"c6">>}

nlp(text) ==
    CASE text[1] = "c1" -> << Ent("LOC", <<"Prefeitura", "de", "Goiania">>) >>
      [] text[1] = "c2" -> << Ent("LOC", <<"Anapolis">>), Ent("ORG", <<"Camara">>),
                              Ent("LOC", <<"Goiania">>) >>
      [] text[1] = "c3" -> << >>
      [] text[1] = "c4" -> << Ent("PER", <<"Goiania">>), Ent("LOC", <<"Uberaba">>) >>
      [] text[1] = "c5" -> << Ent("LOC", <<"Alto", "Paraiso", "de", "Goias">>) >>
      [] OTHER          -> << Ent("LOC", <<"Anapolis">>), Ent("LOC", <<"Brasil">>) >>

ama_header == <<"AGM">>

\* The inner loop of find_municipios: the first territory of the registry,
\* in registry order, with the state code and a name contained in the
\* entity text (then break); <<>> when there is none.
FirstTerritoryMatch(reg, ent_text, state_code) ==
    LET hits == {i \in 1..Len(reg) :
                    /\ reg[i].state_code = state_code
                    /\ Contains(ent_text, reg[i].territory_name)}
    IN  IF hits = {} THEN <<>>
        ELSE << reg[CHOOSE i \in hits : \A j \in hits : i <= j] >>

\* find_municipios: scans reversed(doc.ents), appends one match per LOC entity.
RECURSIVE ScanEnts(_, _, _)
ScanEnts(reg, ents, state_code) ==
    IF ents = <<>> THEN <<>>
    ELSE (IF Head(ents).label_ = "LOC"
          THEN FirstTerritoryMatch(reg, Head(ents).text, state_code)
          ELSE <<>>)
         \o ScanEnts(reg, Tail(ents), state_code)

\* find_municipios without the test of the entity label.
RECURSIVE ScanEntsAnyLabel(_, _, _)
ScanEntsAnyLabel(reg, ents, state_code) ==
    IF ents = <<>> THEN <<>>
    ELSE FirstTerritoryMatch(reg, Head(ents).text, state_code)
         \o ScanEntsAnyLabel(reg, Tail(ents), state_code)

find_municipios_any_label(reg, text, state_code) ==
    ScanEntsAnyLabel(reg, Reverse(nlp(text)), state_code)

find_municipios(reg, text, state_code) ==
    ScanEnts(reg, Reverse(nlp(text)), state_code)

\* tasks.utils.get_territory_slug: the slug of a territory name and state.
get_territory_slug(territory_name, uf) == <<territory_name, uf>>

\* The index into municipios that process_segment reads: municipios[-1].
ChosenIndex(municipios) == Len(municipios)

\* process_segment, up to the slug: the resolved territory name and state.
ResolveTerritory(reg, segment_text) ==
    LET municipios == find_municipios(reg, segment_text, "GO")
    IN  IF Len(municipios) > 0
        THEN [territory_name |-> municipios[ChosenIndex(municipios)].territory_name,
              uf |-> municipios[ChosenIndex(municipios)].state_code]
        ELSE [territory_name |-> AssociationName, uf |-> "GO"]

ResolveSlug(reg, segment_text) ==
    LET r == ResolveTerritory(reg, segment_text)
    IN  get_territory_slug(r.territory_name, r.uf)

NewTerritoryText(segment_text) == ama_header \o <<"\n">> \o segment_text

MapKeys(m) == {m[i].slug : i \in 1..Len(m)}

MapGet(m, slug) == (CHOOSE i \in 1..Len(m) : m[i].slug = slug)

\* dict.setdefault(slug, [])
SetDefault(m, slug) ==
    IF slug \in MapKeys(m) THEN m ELSE Append(m, [slug |-> slug, texts |-> <<>>])

\* territory_to_text_map[slug].append(text)
MapAppend(m, slug, text) ==
    [m EXCEPT ![MapGet(m, slug)].texts = Append(@, text)]

\* The segmenter is not running.
SegIdle ==
    /\ territories = <<>>
    /\ raw_segments = <<>>
    /\ territory_to_text_map = <<>>
    /\ seg_result = <<>>
    /\ seg_pc = "idle"
    /\ seg_k = 0
    /\ gazette_segments = <<>>

\* The text extraction is not running.
TextIdle ==
    /\ tx_gazettes = {}
    /\ tx_territories = <<>>
    /\ tx_endpoint = FALSE
    /\ tx_worker = <<>>
    /\ tx_storage = {}
    /\ tx_index = <<>>
    /\ tx_processed = {}
    /\ tx_ids = <<>>
    /\ tx_collected = {}
    /\ tx_pc = "idle"

\* The themed extraction is not running.
ThemedIdle ==
    /\ theme = [index |-> "none", queries |-> <<>>]
    /\ n_gazette_ids = 0
    /\ search_hits = <<>>
    /\ theme_index = <<>>
    /\ th_ids = <<>>
    /\ th_worker = <<>>
    /\ th_collected = {}
    /\ th_pc = "idle"
    /\ th_run = 0
    /\ th_prev = <<>>
    /\ th_writes = {}
    /\ th_built = {}
    /\ th_faults = FALSE

\* The query builder is not running.
QueryIdle ==
    /\ qb_term_sets = <<>>
    /\ qb_term_block = <<>>
    /\ qb_macro = <<>>
    /\ qb_clauses = <<>>
    /\ qb_collected = {}
    /\ qb_es_query = <<>>
    /\ qb_pc = "idle"

\* The reranking is not running.
RerankIdle ==
    /\ rr_index = <<>>
    /\ rr_index0 = <<>>
    /\ rr_excerpt_ids = <<>>
    /\ rr_worker = <<>>
    /\ rr_collected = {}
    /\ rr_pc = "idle"

\* No call with thread pools is running.
NestedIdle ==
    /\ nf_shape = <<>>
    /\ nf_task = <<>>
    /\ nf_main = <<>>

InitSeg ==
    /\ territories \in Registries
    /\ raw_segments \in (SeqsUpTo(ChunkTexts, MaxChunks) \ {<<>>})
    /\ territory_to_text_map = <<>>
    /\ seg_result = [i \in 1..Len(raw_segments) |-> <<>>]
    /\ seg_pc = "split_workers"
    /\ seg_k = 1
    /\ gazette_segments = <<>>
    /\ ThemedIdle
    /\ TextIdle
    /\ QueryIdle
    /\ RerankIdle
    /\ NestedIdle

\* One worker of executor.map(process_segment, raw_segments): resolves the
\* chunk, registers the slug in the shared dict, returns (slug, text).
process_segment(i) ==
    /\ seg_pc = "split_workers"
    /\ seg_result[i] = <<>>
    /\ LET slug == ResolveSlug(territories, raw_segments[i])
       IN  /\ territory_to_text_map' = SetDefault(territory_to_text_map, slug)
           /\ seg_result' = [seg_result EXCEPT
                                ![i] = <<slug, NewTerritoryText(raw_segments[i])>>]
    /\ UNCHANGED <<territories, raw_segments, seg_pc, seg_k, gazette_segments>>
    /\ UNCHANGED <<themedVars, textVars, queryVars, rerankVars, nestedVars>>

\* The `with ThreadPoolExecutor()` block ends when every worker has returned.
split_join ==
    /\ seg_pc = "split_workers"
    /\ \A i \in 1..Len(raw_segments) : seg_result[i] # <<>>
    /\ seg_pc' = "split_collect"
    /\ seg_k' = 1
    /\ UNCHANGED <<territories, raw_segments, territory_to_text_map, seg_result,
                   gazette_segments>>
    /\ UNCHANGED <<themedVars, textVars, queryVars, rerankVars, nestedVars>>

\* Results read in the reverse of the submission order.
CollectOrderReversed(k) == Len(raw_segments) + 1 - k

\* The position in the input whose result the collecting loop reads k-th:
\* executor.map yields the results in the order of its input.
CollectOrder(k) == k

\* for territory_slug, text in results: map[territory_slug].append(text)
split_collect ==
    /\ seg_pc = "split_collect"
    /\ IF seg_k <= Len(raw_segments)
       THEN /\ territory_to_text_map' =
                   MapAppend(territory_to_text_map,
                             seg_result[CollectOrder(seg_k)][1],
                             seg_result[CollectOrder(seg_k)][2])
            /\ seg_k' = seg_k + 1
            /\ UNCHANGED seg_pc
       ELSE /\ seg_pc' = "build"
            /\ seg_k' = 1
            /\ UNCHANGED territory_to_text_map
    /\ UNCHANGED <<territories, raw_segments, seg_result, gazette_segments>>
    /\ UNCHANGED <<themedVars, textVars, queryVars, rerankVars, nestedVars>>

\* tasks.utils.get_checksum: the md5 of the text it is given.
get_checksum(source_text) == <<"md5", source_text>>

\* tasks.utils.get_territory_data: <<the registry record of the slug>>, or
\* <<>> for the failure when the registry holds no territory of that slug.
get_territory_data(territory_slug, reg) ==
    LET hits == {i \in 1..Len(reg) :
                    get_territory_slug(reg[i].territory_name, reg[i].state_code)
                        = territory_slug}
    IN  IF hits = {} THEN <<>>
        ELSE << reg[CHOOSE i \in hits : \A j \in hits : i <= j] >>

\* {**a, **b}
Override(a, b) ==
    [k \in DOMAIN a \cup DOMAIN b |-> IF k \in DOMAIN b THEN b[k] ELSE a[k]]

RECURSIVE Flatten(_)
Flatten(ss) == IF ss = <<>> THEN <<>> ELSE Head(ss) \o Flatten(Tail(ss))

\* The aggregated gazette whose text the chunks were split from.
ParentGazette(chunks) ==
    [id |-> 7, file_path |-> "5200000/2024-01-02/agm.pdf",
     file_checksum |-> "agm-checksum", territory_id |-> IdAssociation,
     territory_name |-> AssociationName, state_code |-> "GO",
     date |-> "2024-01-02", edition_number |-> "12", is_extra_edition |-> FALSE,
     power |-> "executive", scraped_at |-> "2024-01-03", processed |-> FALSE,
     source_text |-> Flatten(chunks)]

\* The value build_segment stores under "is_fragmented".
IsFragmentedValue(territory_slug, segment_text) == TRUE

\* The text build_segment hands to get_checksum.
ChecksumInput(segment_text) == segment_text

\* build_segment without the spread of the parent gazette: only the values
\* it sets itself.
build_segment_bare(territory_slug, segment_text, gazette, reg) ==
    LET territory_data == get_territory_data(territory_slug, reg)
    IN  IF territory_data = <<>> THEN <<>>
        ELSE << [is_fragmented |-> TRUE,
                 processed |-> TRUE,
                 state_code |-> gazette.state_code,
                 file_checksum |-> get_checksum(segment_text),
                 source_text |-> strip(segment_text),
                 territory_name |-> territory_data[1].territory_name,
                 territory_id |-> territory_data[1].id] >>

\* build_segment: <<the segment record>>, or <<>> when get_territory_data
\* raises.
build_segment(territory_slug, segment_text, gazette, reg) ==
    LET territory_data == get_territory_data(territory_slug, reg)
    IN  IF territory_data = <<>> THEN <<>>
        ELSE << Override(gazette,
                 [is_fragmented |-> IsFragmentedValue(territory_slug, segment_text),
                  processed |-> TRUE,
                  file_checksum |-> get_checksum(ChecksumInput(segment_text)),
                  source_text |-> strip(segment_text),
                  territory_name |-> territory_data[1].territory_name,
                  territory_id |-> territory_data[1].id]) >>

\* The futures of get_gazette_segments, in submission order: one per text
\* of each entry of the dict, entries in insertion order.
RECURSIVE BuildItems(_)
BuildItems(m) ==
    IF m = <<>> THEN <<>>
    ELSE [j \in 1..Len(Head(m).texts) |->
             [slug |-> Head(m).slug, text |-> Head(m).texts[j]]]
         \o BuildItems(Tail(m))

\* for future in futures: gazette_segments.append(future.result()).  The
\* build tasks are pure and their results are read in submission order, so
\* the loop is modelled without the workers' interleaving; a failed task
\* makes future.result() raise out of get_gazette_segments.
build_collect ==
    /\ seg_pc = "build"
    /\ LET items == BuildItems(territory_to_text_map)
       IN  IF seg_k <= Len(items)
           THEN LET seg == build_segment(items[seg_k].slug, items[seg_k].text,
                                         ParentGazette(raw_segments), territories)
                IN  IF seg = <<>>
                    THEN /\ seg_pc' = "raised"
                         /\ UNCHANGED <<seg_k, gazette_segments>>
                    ELSE /\ gazette_segments' = Append(gazette_segments, seg[1])
                         /\ seg_k' = seg_k + 1
                         /\ UNCHANGED seg_pc
           ELSE /\ seg_pc' = "done"
                /\ UNCHANGED <<seg_k, gazette_segments>>
    /\ UNCHANGED <<territories, raw_segments, territory_to_text_map, seg_result>>
    /\ UNCHANGED <<themedVars, textVars, queryVars, rerankVars, nestedVars>>

----------------------------------------------------------------------------
(* Themed excerpts: src/tasks/gazette_themed_excerpts_extraction.py        *)
(*                                                                         *)
(* The text of a highlighted fragment is a sequence of runs [ch, n]: n     *)
(* times the character ch, no two neighbouring runs of the same character. *)

MinExcerptLen == 200

BatchSize == 500

Run(ch, n) == [ch |-> ch, n |-> n]

\* len(text)
RECURSIVE TextLen(_)
TextLen(text) == IF text = <<>> THEN 0 ELSE Head(text).n + TextLen(Tail(text))

\* re.sub(r"\s+", " ", text): every maximal run of whitespace becomes one
\* space.
RECURSIVE CleanRuns(_, _)
CleanRuns(text, acc) ==
    IF text = <<>> THEN acc
    ELSE IF IsSpace(Head(text).ch)
         THEN IF acc # <<>> /\ acc[Len(acc)].ch = " "
              THEN CleanRuns(Tail(text), acc)
              ELSE CleanRuns(Tail(text), Append(acc, Run(" ", 1)))
         ELSE CleanRuns(Tail(text), Append(acc, Head(text)))

clean_extra_whitespaces(text) == CleanRuns(text, <<>>)

\* preprocess_excerpt without the whitespace normalization.
preprocess_excerpt_raw(excerpt) == excerpt

preprocess_excerpt(excerpt) == clean_extra_whitespaces(excerpt)

\* hashlib.md5 of the encoded text, as its hex digest.
md5_hexdigest(text) == <<"md5", text>>

\* An id whose hash changes from one call to the next.
generate_excerpt_id_salted(excerpt, gazette) ==
    <<gazette.file_checksum, "_", <<"md5", excerpt, th_run>>>>

generate_excerpt_id(excerpt, gazette) ==
    <<gazette.file_checksum, "_", md5_hexdigest(excerpt)>>

\* The fragments the highlighter returns in the model.
F200 == << Run("a", 200) >>
F150 == << Run("a", 150) >>
F201sp == << Run("a", 100), Run(" ", 2), Run("b", 99) >>
F200nl == << Run("a", 100), Run("\n", 1), Run("b", 99) >>
F201tail == << Run("a", 198), Run(" ", 1), Run("\t", 2) >>

\* The source documents of the gazette index.
SourceGazette(checksum, dbid, territory_id) ==
    [file_checksum |-> checksum, id |-> dbid, territory_id |-> territory_id,
     created_at |-> "2024-01-03", date |-> "2024-01-02", edition_number |-> "12",
     file_raw_txt |-> <<"files", checksum, ".txt">>, is_extra_edition |-> FALSE,
     is_fragmented |-> FALSE, file_path |-> <<checksum, ".pdf">>,
     file_url |-> <<"files", checksum, ".pdf">>, power |-> "executive",
     processed |-> TRUE, scraped_at |-> "2024-01-03", state_code |-> "GO",
     territory_name |-> <<"Goiania">>, url |-> <<"files", checksum, ".pdf">>]

G1 == SourceGazette("k1", 1, IdGoiania)
G2 == SourceGazette("k2", 2, IdAnapolis)

\* A search hit; a hit the backend returns without highlights has no
\* "highlight" key.
Hit(gazette, fragments) ==
    [_source |-> gazette, has_highlight |-> TRUE, highlight |-> fragments]

HitWithoutHighlight(gazette) ==
    [_source |-> gazette, has_highlight |-> FALSE, highlight |-> <<>>]

\* What one search (one theme query, one batch of gazette ids) may return.
BatchResults == {
    << Hit(G1, <<F200, F150>>) >>,
    << Hit(G1, <<F201sp, F200nl>>), Hit(G2, <<F200>>) >>,
    << HitWithoutHighlight(G2), Hit(G1, <<F201tail, F200>>) >> }

Query(title) == [title |-> title]

ThemeOneQuery == [index |-> "theme_idx", queries |-> << Query("t1") >>]

ThemeTwoQueries == [index |-> "theme_idx", queries |-> << Query("t1"), Query("t2") >>]

\* The calls of the model: a theme and the number of gazette ids (no id,
\* one full batch, one id more than a batch).
Calls == { [theme |-> ThemeOneQuery, n |-> 0],
           [theme |-> ThemeOneQuery, n |-> BatchSize],
           [theme |-> ThemeOneQuery, n |-> BatchSize + 1],
           [theme |-> ThemeTwoQueries, n |-> BatchSize] }

\* batched(gazette_ids, 500): the number of batches of n ids.
NumBatches(n) == (n + BatchSize - 1) \div BatchSize

\* The record process_document builds for one highlighted fragment.
ExcerptRecord(excerpt, gazette, query) ==
    [excerpt |-> preprocess_excerpt(excerpt),
     excerpt_subthemes |-> << query.title >>,
     excerpt_id |-> generate_excerpt_id(excerpt, gazette),
     source_index_id |-> gazette.file_checksum,
     source_created_at |-> gazette.created_at,
     source_database_id |-> gazette.id,
     source_date |-> gazette.date,
     source_edition_number |-> gazette.edition_number,
     source_file_raw_txt |-> gazette.file_raw_txt,
     source_is_extra_edition |-> gazette.is_extra_edition,
     source_is_fragmented |-> gazette.is_fragmented,
     source_file_checksum |-> gazette.file_checksum,
     source_file_path |-> gazette.file_path,
     source_file_url |-> gazette.file_url,
     source_power |-> gazette.power,
     source_processed |-> gazette.processed,
     source_scraped_at |-> gazette.scraped_at,
     source_state_code |-> gazette.state_code,
     source_territory_id |-> gazette.territory_id,
     source_territory_name |-> gazette.territory_name,
     source_url |-> gazette.url]

\* process_document: the records of a hit, in the order of its fragments;
\* <<>> stands for the KeyError of a hit without highlights, which the
\* as_completed loop logs and skips.
process_document(document, query) ==
    IF ~document.has_highlight THEN <<>>
    ELSE [j \in 1..Len(document.highlight) |->
             ExcerptRecord(document.highlight[j], document._source, query)]

\* The fragments behind the records of process_document (history only).
BuiltOf(document, query) ==
    IF ~document.has_highlight THEN {}
    ELSE {LET rec == ExcerptRecord(document.highlight[j], document._source, query)
          IN  [raw |-> document.highlight[j],
               source_file_checksum |-> rec.source_file_checksum,
               excerpt |-> rec.excerpt,
               excerpt_id |-> rec.excerpt_id] :
          j \in 1..Len(document.highlight)}

\* The orders in which as_completed may yield n futures.
Perms(n) == {p \in [1..n -> 1..n] : \A i, j \in 1..n : p[i] = p[j] => i = j}

\* excerpts.extend(result) over the documents in completion order p.
RECURSIVE ExtendAll(_, _, _, _)
ExtendAll(documents, query, p, k) ==
    IF k > Len(documents) THEN <<>>
    ELSE process_document(documents[p[k]], query)
         \o ExtendAll(documents, query, p, k + 1)

\* index.index_document(doc, document_id=id, index=theme["index"]) passed
\* without the id: the backend stores the document under a key of its own.
IndexDocumentNoId(idx, id, doc) ==
    LET key == <<"auto", Cardinality(DOMAIN idx)>>
    IN  [k \in DOMAIN idx \cup {key} |-> IF k = key THEN doc ELSE idx[k]]

\* index.index_document(doc, document_id=id, ...): an upsert under the id.
IndexDocument(idx, id, doc) ==
    [k \in DOMAIN idx \cup {id} |-> IF k = id THEN doc ELSE idx[k]]

\* The test that drops an excerpt: len(excerpt["excerpt"]) < 200.
IsTooShort(excerpt) == TextLen(excerpt.excerpt) < MinExcerptLen

\* A worker before it starts process_theme_query.
FreshWorker ==
    [pc |-> "search", batch |-> 1, excerpts |-> <<>>, pos |-> 1,
     local_ids |-> <<>>, cause |-> "none"]

QueryIdx == 1..Len(theme.queries)

\* The inputs and the first call, common to both specifications.
ThemedStart ==
    /\ \E c \in Calls : theme = c.theme /\ n_gazette_ids = c.n
    /\ search_hits \in [1..Len(theme.queries) ->
                          [1..NumBatches(n_gazette_ids) -> BatchResults]]
    /\ theme_index = <<>>
    /\ th_ids = <<>>
    /\ th_worker = [q \in 1..Len(theme.queries) |-> FreshWorker]
    /\ th_collected = {}
    /\ th_pc = "running"
    /\ th_run = 1
    /\ th_prev = <<>>
    /\ th_writes = {}
    /\ th_built = {}
    /\ SegIdle
    /\ TextIdle
    /\ QueryIdle
    /\ RerankIdle
    /\ NestedIdle

\* One call, against a backend whose calls may raise.
InitThemed == ThemedStart /\ th_faults = TRUE

\* Calls in a row with the same inputs, against a backend whose calls may
\* raise.
InitThemedTwice == ThemedStart /\ th_faults = TRUE

\* get_excerpts_from_gazettes_with_themed_query for the next batch of the
\* worker of query q: builds the query and searches (either call may
\* raise), then builds the excerpts of the hits in completion order.  With
\* no batch left the worker returns local_ids.
themed_search(q) ==
    /\ th_pc = "running"
    /\ th_worker[q].pc = "search"
    /\ IF th_worker[q].batch > NumBatches(n_gazette_ids)
       THEN /\ th_worker' = [th_worker EXCEPT ![q].pc = "returned"]
            /\ UNCHANGED th_built
       ELSE \/ /\ th_faults
               /\ th_worker' = [th_worker EXCEPT ![q].pc = "raised",
                                                 ![q].cause = "search"]
               /\ UNCHANGED th_built
            \/ \E p \in Perms(Len(search_hits[q][th_worker[q].batch])) :
                  LET documents == search_hits[q][th_worker[q].batch]
                  IN  /\ th_worker' = [th_worker EXCEPT
                             ![q].pc = "index",
                             ![q].pos = 1,
                             ![q].excerpts =
                                 ExtendAll(documents, theme.queries[q], p, 1)]
                      /\ th_built' = th_built \cup
                             UNION {BuiltOf(documents[d], theme.queries[q]) :
                                    d \in 1..Len(documents)}
    /\ UNCHANGED <<theme, n_gazette_ids, search_hits, theme_index, th_ids,
                   th_collected, th_pc, th_run, th_prev, th_writes, th_faults>>
    /\ UNCHANGED <<segVars, textVars, queryVars, rerankVars, nestedVars>>

\* One iteration of the loop over the excerpts of the batch in
\* process_theme_query: drops a short excerpt, otherwise writes it to the
\* theme index (the write may raise) and appends its id to local_ids.
themed_index(q) ==
    /\ th_pc = "running"
    /\ th_worker[q].pc = "index"
    /\ LET w == th_worker[q]
       IN  IF w.pos > Len(w.excerpts)
           THEN /\ th_worker' = [th_worker EXCEPT ![q].pc = "search",
                                                  ![q].batch = w.batch + 1]
                /\ UNCHANGED <<theme_index, th_writes>>
           ELSE LET excerpt == w.excerpts[w.pos]
                IN  IF IsTooShort(excerpt)
                    THEN /\ th_worker' = [th_worker EXCEPT ![q].pos = w.pos + 1]
                         /\ UNCHANGED <<theme_index, th_writes>>
                    ELSE \/ /\ th_faults
                            /\ th_worker' = [th_worker EXCEPT ![q].pc = "raised",
                                                              ![q].cause = "index"]
                            /\ UNCHANGED <<theme_index, th_writes>>
                         \/ /\ theme_index' =
                                   IndexDocument(theme_index, excerpt.excerpt_id, excerpt)
                            /\ th_writes' = th_writes \cup
                                   {[run |-> th_run, worker |-> q,
                                     id |-> excerpt.excerpt_id, doc |-> excerpt]}
                            /\ th_worker' = [th_worker EXCEPT
                                   ![q].pos = w.pos + 1,
                                   ![q].local_ids = Append(w.local_ids, excerpt.excerpt_id)]
    /\ UNCHANGED <<theme, n_gazette_ids, search_hits, th_ids, th_collected,
                   th_pc, th_run, th_prev, th_built, th_faults>>
    /\ UNCHANGED <<segVars, textVars, queryVars, rerankVars, nestedVars>>

\* What the as_completed loop adds to ids for a finished future: the
\* result of a worker that returned, nothing for one that raised.
CollectedIds(w) == IF w.pc = "returned" THEN w.local_ids ELSE <<>>

\* One iteration of `for future in as_completed(futures)`: reads the result
\* of a finished worker, extends ids or logs the exception.
themed_collect(q) ==
    /\ th_pc = "running"
    /\ q \notin th_collected
    /\ th_worker[q].pc \in {"returned", "raised"}
    /\ th_ids' = th_ids \o CollectedIds(th_worker[q])
    /\ th_collected' = th_collected \cup {q}
    /\ UNCHANGED <<theme, n_gazette_ids, search_hits, theme_index, th_worker,
                   th_pc, th_run, th_prev, th_writes, th_built, th_faults>>
    /\ UNCHANGED <<segVars, textVars, queryVars, rerankVars, nestedVars>>

\* return ids
themed_return ==
    /\ th_pc = "running"
    /\ th_collected = QueryIdx
    /\ th_pc' = "returned"
    /\ UNCHANGED <<theme, n_gazette_ids, search_hits, theme_index, th_ids,
                   th_worker, th_collected, th_run, th_prev, th_writes, th_built,
                   th_faults>>
    /\ UNCHANGED <<segVars, textVars, queryVars, rerankVars, nestedVars>>

\* The caller runs extract_themed_excerpts_from_gazettes again with the same
\* theme, gazette ids and search results; the theme index keeps its content.
themed_rerun ==
    /\ th_pc = "returned"
    /\ th_run < MaxRuns
    /\ th_prev' = << [ids |-> Range(th_ids), keys |-> DOMAIN theme_index,
                       failed |-> \E q \in QueryIdx : th_worker[q].pc = "raised"] >>
    /\ th_writes' = {}
    /\ th_run' = th_run + 1
    /\ th_ids' = <<>>
    /\ th_worker' = [q \in QueryIdx |-> FreshWorker]
    /\ th_collected' = {}
    /\ th_pc' = "running"
    /\ UNCHANGED <<theme, n_gazette_ids, search_hits, theme_index, th_built, th_faults>>
    /\ UNCHANGED <<segVars, textVars, queryVars, rerankVars, nestedVars>>

NextThemed ==
    \/ \E q \in QueryIdx : themed_search(q)
    \/ \E q \in QueryIdx : themed_index(q)
    \/ \E q \in QueryIdx : themed_collect(q)
    \/ themed_return

SpecThemed == InitThemed /\ [][NextThemed]_vars

NextThemedTwice ==
    \/ NextThemed
    \/ themed_rerun

SpecThemedTwice == InitThemedTwice /\ [][NextThemedTwice]_vars

----------------------------------------------------------------------------
(* The segmenter as a function, for its caller: the result of               *)
(* get_gazette_segments when the workers of split_text_by_territory         *)
(* register their slugs in the order p of the chunk positions.              *)

RECURSIVE RegisterAll(_, _, _, _)
RegisterAll(m, chunks, reg, p) ==
    IF p = <<>> THEN m
    ELSE RegisterAll(SetDefault(m, ResolveSlug(reg, chunks[Head(p)])),
                     chunks, reg, Tail(p))

RECURSIVE AppendAll(_, _, _, _)
AppendAll(m, chunks, reg, k) ==
    IF k > Len(chunks) THEN m
    ELSE AppendAll(MapAppend(m, ResolveSlug(reg, chunks[k]), NewTerritoryText(chunks[k])),
                   chunks, reg, k + 1)

split_text_by_territory(chunks, reg, p) ==
    AppendAll(RegisterAll(<<>>, chunks, reg, p), chunks, reg, 1)

\* [ok |-> FALSE] when a build_segment task raises.
get_gazette_segments(gazette, chunks, reg, p) ==
    LET items == BuildItems(split_text_by_territory(chunks, reg, p))
        built == [k \in 1..Len(items) |->
                     build_segment(items[k].slug, items[k].text, gazette, reg)]
    IN  IF \E k \in 1..Len(items) : built[k] = <<>>
        THEN [ok |-> FALSE, segments |-> <<>>]
        ELSE [ok |-> TRUE, segments |-> [k \in 1..Len(items) |-> built[k][1]]]

----------------------------------------------------------------------------
(* Text extraction: src/tasks/gazette_text_extraction.py                   *)

\* A gazette row: its text is given by the chunks the splitter finds in it.
TxGazette(key, territory_id, chunks) ==
    [id |-> key, file_path |-> <<key, ".pdf">>, file_checksum |-> <<"sum", key>>,
     territory_id |-> territory_id, territory_name |-> <<"name", key>>,
     state_code |-> "GO", date |-> "2024-01-02", edition_number |-> "12",
     is_extra_edition |-> FALSE, power |-> "executive", scraped_at |-> "2024-01-03",
     processed |-> FALSE, chunks |-> chunks]

\* The gazettes a call may be given: three of single municipalities and one
\* of the association.
GazettePool == {
    TxGazette("n1", IdGoiania, << <<"c1">> >>),
    TxGazette("n2", IdAnapolis, << <<"c6">> >>),
    TxGazette("n3", IdGoias, << <<"c5">> >>),
    TxGazette("a1", IdAssociation, << <<"c1">>, <<"c3", " ">> >>) }

GazetteKeys == {g.id : g \in tx_gazettes}

GazetteOf(key) == CHOOSE g \in tx_gazettes : g.id = key

\* s[-n:]
Suffix(s, n) == SubSeq(s, IF Len(s) > n THEN Len(s) - n + 1 ELSE 1, Len(s))

\* The test made on the last 4 characters.
gazette_type_is_aggregated_last4(gazette) ==
    strip(Suffix(gazette.territory_id, 4)) = <<"0", "0", "0", "0">>

gazette_type_is_aggregated(gazette) ==
    strip(Suffix(gazette.territory_id, 5)) = <<"0", "0", "0", "0", "0">>

\* Path(file_path).with_suffix(".txt")
define_gazette_txt_path(gazette) ==
    [gazette.file_path EXCEPT ![Len(gazette.file_path)] = ".txt"]

define_segment_txt_path(segment) ==
    <<segment.territory_id, "/", segment.date, "/", segment.file_checksum, ".txt">>

define_file_url(path) == <<"endpoint", "/">> \o path

\* The gazette dict after lines 74-77: with source_text, url, file_raw_txt.
ExtractedGazette(gazette) ==
    Override(gazette,
        [source_text |-> Flatten(gazette.chunks),
         url |-> define_file_url(gazette.file_path),
         file_raw_txt |-> define_file_url(define_gazette_txt_path(gazette))])

\* process_gazette returning what the gazette had collected when it raised.
OnExceptionPartial(document_ids) == document_ids

\* process_gazette: the value returned when try_process_gazette_file raises.
OnExceptionResult(document_ids) == <<>>

TxFreshWorker ==
    [pc |-> "download", tmp |-> "none", removals |-> 0, segments |-> <<>>,
     tasks |-> <<>>, k |-> 1, document_ids |-> <<>>, result |-> <<>>,
     failed_at |-> "none"]

\* The exception leaves try_process_gazette_file and is caught by
\* process_gazette.
Raise(w, step) ==
    [w EXCEPT !.pc = "failed", !.failed_at = step,
              !.result = OnExceptionResult(w.document_ids)]

\* The temporary file left on the disk.
RemoveTmpSkipped(w) == w

\* os.remove(gazette_file)
RemoveTmp(w) == [w EXCEPT !.tmp = "removed", !.removals = @ + 1]

\* A result read without waiting for the task to finish.
FutureReadyAlways(task) == TRUE

\* future.result() returns or raises once the task has finished.
FutureReady(task) == task # "pending"

InitText ==
    /\ tx_gazettes \in {G \in SUBSET GazettePool :
                            Cardinality(G) >= 1 /\ Cardinality(G) <= MaxGazettes}
    /\ tx_territories \in Registries
    /\ tx_endpoint \in BOOLEAN
    /\ tx_worker = [key \in {g.id : g \in tx_gazettes} |-> TxFreshWorker]
    /\ tx_storage = {}
    /\ tx_index = <<>>
    /\ tx_processed = {}
    /\ tx_ids = <<>>
    /\ tx_collected = {}
    /\ tx_pc = "running"
    /\ SegIdle
    /\ ThemedIdle
    /\ QueryIdle
    /\ RerankIdle
    /\ NestedIdle

\* download_gazette_file: creates the temporary file, then storage.get_file
\* fills it or raises.
tx_download(g) ==
    /\ tx_pc = "running"
    /\ tx_worker[g].pc = "download"
    /\ \/ tx_worker' = [tx_worker EXCEPT ![g].pc = "extract", ![g].tmp = "exists"]
       \/ tx_worker' = [tx_worker EXCEPT
              ![g] = Raise([tx_worker[g] EXCEPT !.tmp = "exists"], "download")]
    /\ UNCHANGED <<tx_gazettes, tx_territories, tx_endpoint, tx_storage, tx_index,
                   tx_processed, tx_ids, tx_collected, tx_pc>>
    /\ UNCHANGED <<segVars, themedVars, queryVars, rerankVars, nestedVars>>

\* try_to_extract_content, then lines 75-77: a failed extraction removes the
\* temporary file and raises; define_file_url raises when the endpoint is
\* not in the environment.
tx_extract(g) ==
    /\ tx_pc = "running"
    /\ tx_worker[g].pc = "extract"
    /\ \/ tx_worker' = [tx_worker EXCEPT
              ![g] = Raise(RemoveTmp(tx_worker[g]), "extraction")]
       \/ tx_worker' = [tx_worker EXCEPT
              ![g] = IF tx_endpoint THEN [tx_worker[g] EXCEPT !.pc = "upload"]
                     ELSE Raise(tx_worker[g], "endpoint")]
    /\ UNCHANGED <<tx_gazettes, tx_territories, tx_endpoint, tx_storage, tx_index,
                   tx_processed, tx_ids, tx_collected, tx_pc>>
    /\ UNCHANGED <<segVars, themedVars, queryVars, rerankVars, nestedVars>>

\* upload_raw_text of the gazette, then delete_gazette_files.
tx_upload(g) ==
    /\ tx_pc = "running"
    /\ tx_worker[g].pc = "upload"
    /\ \/ /\ tx_worker' = [tx_worker EXCEPT ![g] = Raise(tx_worker[g], "upload")]
          /\ UNCHANGED tx_storage
       \/ /\ tx_storage' = tx_storage \cup {define_gazette_txt_path(GazetteOf(g))}
          /\ tx_worker' = [tx_worker EXCEPT
                 ![g] = [RemoveTmp(tx_worker[g]) EXCEPT
                            !.pc = IF gazette_type_is_aggregated(GazetteOf(g))
                                   THEN "segment" ELSE "index"]]
    /\ UNCHANGED <<tx_gazettes, tx_territories, tx_endpoint, tx_index,
                   tx_processed, tx_ids, tx_collected, tx_pc>>
    /\ UNCHANGED <<segVars, themedVars, queryVars, rerankVars, nestedVars>>

\* get_segmenter(...).get_gazette_segments(gazette) and the submission of
\* one process_segment task per segment.
tx_segment(g) ==
    /\ tx_pc = "running"
    /\ tx_worker[g].pc = "segment"
    /\ \E p \in Perms(Len(GazetteOf(g).chunks)) :
          LET r == get_gazette_segments(ExtractedGazette(GazetteOf(g)),
                                        GazetteOf(g).chunks, tx_territories, p)
          IN  tx_worker' = [tx_worker EXCEPT
                  ![g] = IF r.ok
                         THEN [tx_worker[g] EXCEPT
                                  !.pc = "segments",
                                  !.segments = r.segments,
                                  !.tasks = [j \in 1..Len(r.segments) |-> "pending"],
                                  !.k = 1]
                         ELSE Raise(tx_worker[g], "segmentation")]
    /\ UNCHANGED <<tx_gazettes, tx_territories, tx_endpoint, tx_storage, tx_index,
                   tx_processed, tx_ids, tx_collected, tx_pc>>
    /\ UNCHANGED <<segVars, themedVars, queryVars, rerankVars, nestedVars>>

\* index.index_document(doc, document_id=id): an upsert under the id.
TxIndexDocument(idx, id, doc) ==
    [k \in DOMAIN idx \cup {id} |-> IF k = id THEN doc ELSE idx[k]]

\* process_segment (the task of one segment): uploads the raw text of the
\* segment and indexes the segment under its checksum; either call may
\* raise, which ends the task.
tx_process_segment(g, j) ==
    /\ tx_pc = "running"
    /\ tx_worker[g].pc = "segments"
    /\ tx_worker[g].tasks[j] = "pending"
    /\ LET segment == Override(tx_worker[g].segments[j],
                          [file_raw_txt |->
                              define_file_url(define_segment_txt_path(
                                  tx_worker[g].segments[j]))])
           path == define_segment_txt_path(tx_worker[g].segments[j])
       IN  \/ /\ tx_worker' = [tx_worker EXCEPT ![g].tasks[j] = "failed_upload"]
              /\ UNCHANGED <<tx_storage, tx_index>>
           \/ /\ tx_storage' = tx_storage \cup {path}
              /\ tx_worker' = [tx_worker EXCEPT ![g].tasks[j] = "failed_index"]
              /\ UNCHANGED tx_index
           \/ /\ tx_storage' = tx_storage \cup {path}
              /\ tx_index' = TxIndexDocument(tx_index, segment.file_checksum, segment)
              /\ tx_worker' = [tx_worker EXCEPT ![g].tasks[j] = "done"]
    /\ UNCHANGED <<tx_gazettes, tx_territories, tx_endpoint, tx_processed, tx_ids,
                   tx_collected, tx_pc>>
    /\ UNCHANGED <<segVars, themedVars, queryVars, rerankVars, nestedVars>>

\* One iteration of `for future in future_to_segment`: waits for the k-th
\* task, appends its id or logs its exception; after the last one the pool
\* is left and the gazette goes on to set_gazette_as_processed.
tx_segment_collect(g) ==
    /\ tx_pc = "running"
    /\ tx_worker[g].pc = "segments"
    /\ LET w == tx_worker[g]
       IN  IF w.k > Len(w.tasks)
           THEN tx_worker' = [tx_worker EXCEPT ![g].pc = "mark"]
           ELSE /\ FutureReady(w.tasks[w.k])
                /\ tx_worker' = [tx_worker EXCEPT
                       ![g].k = w.k + 1,
                       ![g].document_ids =
                           IF w.tasks[w.k] = "done"
                           THEN Append(w.document_ids, w.segments[w.k].file_checksum)
                           ELSE w.document_ids]
    /\ UNCHANGED <<tx_gazettes, tx_territories, tx_endpoint, tx_storage, tx_index,
                   tx_processed, tx_ids, tx_collected, tx_pc>>
    /\ UNCHANGED <<segVars, themedVars, queryVars, rerankVars, nestedVars>>

\* The else branch: index.index_document(gazette, file_checksum).
tx_index_gazette(g) ==
    /\ tx_pc = "running"
    /\ tx_worker[g].pc = "index"
    /\ \/ /\ tx_worker' = [tx_worker EXCEPT ![g] = Raise(tx_worker[g], "indexing")]
          /\ UNCHANGED tx_index
       \/ /\ tx_index' = TxIndexDocument(tx_index, GazetteOf(g).file_checksum,
                                         ExtractedGazette(GazetteOf(g)))
          /\ tx_worker' = [tx_worker EXCEPT
                 ![g].pc = "mark",
                 ![g].document_ids = Append(@, GazetteOf(g).file_checksum)]
    /\ UNCHANGED <<tx_gazettes, tx_territories, tx_endpoint, tx_storage,
                   tx_processed, tx_ids, tx_collected, tx_pc>>
    /\ UNCHANGED <<segVars, themedVars, queryVars, rerankVars, nestedVars>>

\* set_gazette_as_processed, then return document_ids.
tx_mark(g) ==
    /\ tx_pc = "running"
    /\ tx_worker[g].pc = "mark"
    /\ \/ /\ tx_worker' = [tx_worker EXCEPT ![g] = Raise(tx_worker[g], "mark")]
          /\ UNCHANGED tx_processed
       \/ /\ tx_processed' = tx_processed \cup
                 {<<GazetteOf(g).id, GazetteOf(g).file_checksum>>}
          /\ tx_worker' = [tx_worker EXCEPT
                 ![g].pc = "returned",
                 ![g].result = tx_worker[g].document_ids]
    /\ UNCHANGED <<tx_gazettes, tx_territories, tx_endpoint, tx_storage, tx_index,
                   tx_ids, tx_collected, tx_pc>>
    /\ UNCHANGED <<segVars, themedVars, queryVars, rerankVars, nestedVars>>

\* One iteration of `for future in as_completed(futures)`:
\* ids.extend(future.result()).
tx_collect(g) ==
    /\ tx_pc = "running"
    /\ g \notin tx_collected
    /\ tx_worker[g].pc \in {"returned", "failed"}
    /\ tx_ids' = tx_ids \o tx_worker[g].result
    /\ tx_collected' = tx_collected \cup {g}
    /\ UNCHANGED <<tx_gazettes, tx_territories, tx_endpoint, tx_worker, tx_storage,
                   tx_index, tx_processed, tx_pc>>
    /\ UNCHANGED <<segVars, themedVars, queryVars, rerankVars, nestedVars>>

\* return ids
tx_return ==
    /\ tx_pc = "running"
    /\ tx_collected = GazetteKeys
    /\ tx_pc' = "returned"
    /\ UNCHANGED <<tx_gazettes, tx_territories, tx_endpoint, tx_worker, tx_storage,
                   tx_index, tx_processed, tx_ids, tx_collected>>
    /\ UNCHANGED <<segVars, themedVars, queryVars, rerankVars, nestedVars>>

NextText ==
    \/ \E g \in GazetteKeys : tx_download(g)
    \/ \E g \in GazetteKeys : tx_extract(g)
    \/ \E g \in GazetteKeys : tx_upload(g)
    \/ \E g \in GazetteKeys : tx_segment(g)
    \/ \E g \in GazetteKeys : \E j \in 1..Len(tx_worker[g].tasks) : tx_process_segment(g, j)
    \/ \E g \in GazetteKeys : tx_segment_collect(g)
    \/ \E g \in GazetteKeys : tx_index_gazette(g)
    \/ \E g \in GazetteKeys : tx_mark(g)
    \/ \E g \in GazetteKeys : tx_collect(g)
    \/ tx_return

SpecText == InitText /\ [][NextText]_vars

NextSeg ==
    \/ \E i \in 1..Len(raw_segments) : process_segment(i)
    \/ split_join
    \/ split_collect
    \/ build_collect

SpecSeg == InitSeg /\ [][NextSeg]_vars

----------------------------------------------------------------------------
(* Query builder: get_es_query_from_themed_query                           *)
(* (src/tasks/gazette_themed_excerpts_extraction.py)                       *)
(*                                                                         *)
(* A term is the sequence of its words and punctuation marks.              *)

T_meio == <<"Meio", "Ambiente">>
T_amb == <<"ambiental">>
T_lic == <<"Licenca", ",", "previa">>
T_lic2 == <<"licenciamento">>
T_agua == <<"Agua">>

\* The token the analyzer of the field makes of a word.
Lower(word) ==
    CASE word = "Meio" -> "meio"
      [] word = "Ambiente" -> "ambiente"
      [] word = "Licenca" -> "licenca"
      [] word = "Agua" -> "agua"
      [] OTHER -> word

IsWord(word) == word # ","

\* index.analyze(text=term, field=...)["tokens"]: the tokens of the term in
\* text order, lower-cased, punctuation dropped.
analyze(term) ==
    LET words == SelectSeq(term, IsWord)
    IN  [i \in 1..Len(words) |-> [token |-> Lower(words[i])]]

\* The term structures of the model: one macro-set of two term-sets of two
\* synonyms each; two macro-sets that share a term-set; no macro-set.
QueryOneMacro == << << <<T_meio, T_amb>>, <<T_lic, T_lic2>> >> >>

QueryTwoMacros == << << <<T_meio, T_amb>>, <<T_lic>> >>,
                     << <<T_agua>>, <<T_meio, T_amb>> >> >>

QueryNoMacro == << >>

TermStructures == {QueryOneMacro, QueryTwoMacros, QueryNoMacro}

QueryGazetteIds == <<"k1", "k2">>

\* es_query as built at lines 108-122, with the given "must" list.
EsQuery(gazette_ids, must) ==
    [query |-> [bool |-> [must |-> must,
                          filter |-> [ids |-> [values |-> gazette_ids]]]],
     size |-> 10,
     highlight |-> [fields |-> [source_text_with_stopwords |->
                       [type |-> "unified", fragment_size |-> 2000,
                        number_of_fragments |-> 10,
                        pre_tags |-> <<"">>, post_tags |-> <<"">>]]]]

word_block(token) == [span_term |-> [source_text_with_stopwords |-> token.token]]

\* The phrase block of one term: its word blocks in token order.
phrase_block(term) ==
    [span_near |-> [clauses |-> [i \in 1..Len(analyze(term)) |->
                                    word_block(analyze(term)[i])],
                    slop |-> 0, in_order |-> TRUE]]

\* process_term_set with phrase_block created once, before the loop over the
\* terms: every clause is the one block that holds the tokens of all terms.
RECURSIVE AllTokens(_)
AllTokens(term_set) ==
    IF term_set = <<>> THEN <<>>
    ELSE analyze(Head(term_set)) \o AllTokens(Tail(term_set))

process_term_set_shared_phrase(term_set) ==
    [span_or |-> [clauses |-> [i \in 1..Len(term_set) |->
        [span_near |-> [clauses |-> [j \in 1..Len(AllTokens(term_set)) |->
                                        word_block(AllTokens(term_set)[j])],
                        slop |-> 0, in_order |-> TRUE]]]]]

\* process_term_set: the synonym block of a term-set, one phrase block per
\* term, in the order of the terms.
process_term_set(term_set) ==
    [span_or |-> [clauses |-> [i \in 1..Len(term_set) |-> phrase_block(term_set[i])]]]

\* proximity_block of process_macro_set with the given clauses.
proximity_block(clauses) ==
    [span_near |-> [clauses |-> clauses, slop |-> 20, in_order |-> FALSE]]

MacroIdx == 1..Len(qb_term_sets)

QbFreshMacro == [pc |-> "running", clauses |-> <<>>, collected |-> {}]

InitQuery ==
    /\ qb_term_sets \in TermStructures
    /\ qb_term_block = [m \in 1..Len(qb_term_sets) |->
                           [t \in 1..Len(qb_term_sets[m]) |-> "pending"]]
    /\ qb_macro = [m \in 1..Len(qb_term_sets) |-> QbFreshMacro]
    /\ qb_clauses = <<>>
    /\ qb_collected = {}
    /\ qb_es_query = <<>>
    /\ qb_pc = "running"
    /\ SegIdle
    /\ ThemedIdle
    /\ TextIdle
    /\ RerankIdle
    /\ NestedIdle

\* The task process_term_set of term-set t of macro-set m: returns its
\* synonym block, or raises when index.analyze raises.
qb_term_set(m, t) ==
    /\ qb_pc = "running"
    /\ qb_macro[m].pc = "running"
    /\ qb_term_block[m][t] = "pending"
    /\ \/ qb_term_block' = [qb_term_block EXCEPT
              ![m][t] = << process_term_set(qb_term_sets[m][t]) >>]
       \/ qb_term_block' = [qb_term_block EXCEPT ![m][t] = "failed"]
    /\ UNCHANGED <<qb_term_sets, qb_macro, qb_clauses, qb_collected, qb_es_query, qb_pc>>
    /\ UNCHANGED <<segVars, themedVars, textVars, rerankVars, nestedVars>>

\* One iteration of `for future in as_completed(term_set_futures)` of
\* process_macro_set m: appends the block of a finished task; the exception
\* of a failed task leaves process_macro_set.
qb_macro_collect(m, t) ==
    /\ qb_pc = "running"
    /\ qb_macro[m].pc = "running"
    /\ t \notin qb_macro[m].collected
    /\ qb_term_block[m][t] # "pending"
    /\ qb_macro' = [qb_macro EXCEPT
          ![m] = IF qb_term_block[m][t] = "failed"
                 THEN [@ EXCEPT !.pc = "raised"]
                 ELSE [@ EXCEPT !.clauses = Append(@, qb_term_block[m][t][1]),
                                !.collected = @ \cup {t}]]
    /\ UNCHANGED <<qb_term_sets, qb_term_block, qb_clauses, qb_collected,
                   qb_es_query, qb_pc>>
    /\ UNCHANGED <<segVars, themedVars, textVars, rerankVars, nestedVars>>

\* return proximity_block
qb_macro_return(m) ==
    /\ qb_pc = "running"
    /\ qb_macro[m].pc = "running"
    /\ qb_macro[m].collected = 1..Len(qb_term_sets[m])
    /\ qb_macro' = [qb_macro EXCEPT ![m].pc = "returned"]
    /\ UNCHANGED <<qb_term_sets, qb_term_block, qb_clauses, qb_collected,
                   qb_es_query, qb_pc>>
    /\ UNCHANGED <<segVars, themedVars, textVars, rerankVars, nestedVars>>

\* One iteration of `for future in as_completed(macro_set_futures)`: appends
\* the proximity block of a finished process_macro_set; the exception of a
\* failed one leaves get_es_query_from_themed_query.
qb_collect(m) ==
    /\ qb_pc = "running"
    /\ m \notin qb_collected
    /\ qb_macro[m].pc \in {"returned", "raised"}
    /\ IF qb_macro[m].pc = "raised"
       THEN /\ qb_pc' = "raised"
            /\ UNCHANGED <<qb_clauses, qb_collected>>
       ELSE /\ qb_clauses' = Append(qb_clauses, proximity_block(qb_macro[m].clauses))
            /\ qb_collected' = qb_collected \cup {m}
            /\ UNCHANGED qb_pc
    /\ UNCHANGED <<qb_term_sets, qb_term_block, qb_macro, qb_es_query>>
    /\ UNCHANGED <<segVars, themedVars, textVars, rerankVars, nestedVars>>

\* es_query["query"]["bool"]["must"].append(macro_synonym_block); return
qb_return ==
    /\ qb_pc = "running"
    /\ qb_collected = MacroIdx
    /\ qb_es_query' = << EsQuery(QueryGazetteIds,
                                 << [span_or |-> [clauses |-> qb_clauses]] >>) >>
    /\ qb_pc' = "returned"
    /\ UNCHANGED <<qb_term_sets, qb_term_block, qb_macro, qb_clauses, qb_collected>>
    /\ UNCHANGED <<segVars, themedVars, textVars, rerankVars, nestedVars>>

NextQuery ==
    \/ \E m \in MacroIdx : \E t \in 1..Len(qb_term_sets[m]) : qb_term_set(m, t)
    \/ \E m \in MacroIdx : \E t \in 1..Len(qb_term_sets[m]) : qb_macro_collect(m, t)
    \/ \E m \in MacroIdx : qb_macro_return(m)
    \/ \E m \in MacroIdx : qb_collect(m)
    \/ qb_return

SpecQuery == InitQuery /\ [][NextQuery]_vars

----------------------------------------------------------------------------
(* Reranking: src/tasks/gazette_excerpts_embedding_reranking.py            *)

\* get_natural_language_queries
get_natural_language_queries(th) ==
    [i \in 1..Len(th.queries) |-> th.queries[i].title]

\* The score of semantic_search(excerpt_vector, queries_vectors, top_k=1): a
\* value determined by the excerpt text and the queries.
EmbeddingScore(excerpt_text, queries) == <<"score", excerpt_text, queries>>

\* The excerpts of the theme index when the call starts, as the themed
\* extraction wrote them; the second one has the score of an earlier call.
RrExcerptA == ExcerptRecord(F200, G1, Query("t1"))

RrExcerptB ==
    Override(ExcerptRecord(F201sp, G2, Query("t2")),
             [excerpt_embedding_score |-> <<"score", "earlier">>])

RrIndexStart ==
    [k \in {RrExcerptA.excerpt_id, RrExcerptB.excerpt_id} |->
        IF k = RrExcerptA.excerpt_id THEN RrExcerptA ELSE RrExcerptB]

\* An id under which the theme index holds no record.
RrMissingId == generate_excerpt_id(F150, G1)

RrIdPool == {RrExcerptA.excerpt_id, RrExcerptB.excerpt_id, RrMissingId}

\* tasks.utils.get_documents_with_ids([excerpt_id], index, theme["index"]):
\* the hits of the index for the id.
get_documents_with_ids(idx, excerpt_id) ==
    IF excerpt_id \in DOMAIN idx THEN << [_source |-> idx[excerpt_id]] >> ELSE <<>>

\* The document written back holding nothing but the id and the score.
ScoredExcerptOnly(excerpt, score) ==
    [excerpt_id |-> excerpt.excerpt_id, excerpt_embedding_score |-> score]

\* excerpt["excerpt_embedding_score"] = score
ScoredExcerpt(excerpt, score) ==
    Override(excerpt, [excerpt_embedding_score |-> score])

RrIdx == 1..Len(rr_excerpt_ids)

RrFreshWorker == [pc |-> "get", excerpt |-> <<>>]

InitRerank ==
    /\ rr_index = RrIndexStart
    /\ rr_index0 = RrIndexStart
    /\ rr_excerpt_ids \in SeqsUpTo(RrIdPool, MaxExcerptIds)
    /\ rr_worker = [i \in 1..Len(rr_excerpt_ids) |-> RrFreshWorker]
    /\ rr_collected = {}
    /\ rr_pc = "setup"
    /\ SegIdle
    /\ ThemedIdle
    /\ TextIdle
    /\ QueryIdle
    /\ NestedIdle

\* Lines 12-17: the model is loaded and the queries are encoded, or one of
\* these calls raises out of embedding_rerank_excerpts.
rr_setup ==
    /\ rr_pc = "setup"
    /\ \/ rr_pc' = "running"
       \/ rr_pc' = "raised"
    /\ UNCHANGED <<rr_index, rr_index0, rr_excerpt_ids, rr_worker, rr_collected>>
    /\ UNCHANGED <<segVars, themedVars, textVars, queryVars, nestedVars>>

\* process_excerpt, line 20-22 and 35-37: reads the record of the id (the
\* call may raise); without a record it logs and returns None.
rr_get(i) ==
    /\ rr_pc = "running"
    /\ rr_worker[i].pc = "get"
    /\ \/ rr_worker' = [rr_worker EXCEPT ![i].pc = "failed"]
       \/ LET documents == get_documents_with_ids(rr_index, rr_excerpt_ids[i])
          IN  rr_worker' = [rr_worker EXCEPT
                  ![i] = IF documents # <<>>
                         THEN [pc |-> "score", excerpt |-> << documents[1]._source >>]
                         ELSE [pc |-> "none", excerpt |-> <<>>]]
    /\ UNCHANGED <<rr_index, rr_index0, rr_excerpt_ids, rr_collected, rr_pc>>
    /\ UNCHANGED <<segVars, themedVars, textVars, queryVars, nestedVars>>

\* process_excerpt, lines 23-34: scores the excerpt and writes it back under
\* its excerpt_id; the encoding or the write may raise.
rr_write(i) ==
    /\ rr_pc = "running"
    /\ rr_worker[i].pc = "score"
    /\ \/ /\ rr_worker' = [rr_worker EXCEPT ![i].pc = "failed"]
          /\ UNCHANGED rr_index
       \/ LET excerpt == rr_worker[i].excerpt[1]
              scored == ScoredExcerpt(excerpt,
                            EmbeddingScore(excerpt.excerpt,
                                           get_natural_language_queries(ThemeTwoQueries)))
          IN  /\ rr_index' = IndexDocument(rr_index, scored.excerpt_id, scored)
              /\ rr_worker' = [rr_worker EXCEPT ![i].pc = "done",
                                                ![i].excerpt = << scored >>]
    /\ UNCHANGED <<rr_index0, rr_excerpt_ids, rr_collected, rr_pc>>
    /\ UNCHANGED <<segVars, themedVars, textVars, queryVars, nestedVars>>

\* One iteration of `for future in as_completed(futures)`: reads the result
\* of a finished task or logs its exception.
rr_collect(i) ==
    /\ rr_pc = "running"
    /\ i \notin rr_collected
    /\ rr_worker[i].pc \in {"done", "none", "failed"}
    /\ rr_collected' = rr_collected \cup {i}
    /\ UNCHANGED <<rr_index, rr_index0, rr_excerpt_ids, rr_worker, rr_pc>>
    /\ UNCHANGED <<segVars, themedVars, textVars, queryVars, nestedVars>>

\* The end of the function.
rr_return ==
    /\ rr_pc = "running"
    /\ rr_collected = RrIdx
    /\ rr_pc' = "returned"
    /\ UNCHANGED <<rr_index, rr_index0, rr_excerpt_ids, rr_worker, rr_collected>>
    /\ UNCHANGED <<segVars, themedVars, textVars, queryVars, nestedVars>>

NextRerank ==
    \/ rr_setup
    \/ \E i \in RrIdx : rr_get(i)
    \/ \E i \in RrIdx : rr_write(i)
    \/ \E i \in RrIdx : rr_collect(i)
    \/ rr_return

SpecRerank == InitRerank /\ [][NextRerank]_vars

----------------------------------------------------------------------------
(* The thread pools of one call of extract_themed_excerpts_from_gazettes   *)
(* (src/tasks/gazette_themed_excerpts_extraction.py): the pool of the      *)
(* theme queries (line 35), and per query and batch the pool of the        *)
(* macro-sets (line 147), per macro-set the pool of its term-sets          *)
(* (line 139), and the pool of the documents (line 85).  A task waits in   *)
(* the queue of its pool until one of the pool's threads is free, and      *)
(* holds the thread until it returns or raises, also while it waits for    *)
(* the tasks of a pool it opened.                                          *)

Task(kind, q, b, m, t) == [kind |-> kind, q |-> q, b |-> b, m |-> m, t |-> t]

\* The sizes of the calls of the model: the number of theme queries, of
\* batches of gazette ids, of term-sets per macro-set of every query, and of
\* documents every search returns.
NestedCalls ==
    { [queries |-> 1, batches |-> 2, macros |-> <<2>>, docs |-> 2],
      [queries |-> 2, batches |-> 1, macros |-> <<1, 1>>, docs |-> 1],
      [queries |-> 1, batches |-> 1, macros |-> <<>>, docs |-> 0] }

QueryTasks(sh) == {Task("query", q, 0, 0, 0) : q \in 1..sh.queries}

MacroTasks(sh, q, b) == {Task("macro", q, b, m, 0) : m \in 1..Len(sh.macros)}

TermTasks(sh, q, b, m) == {Task("term", q, b, m, t) : t \in 1..sh.macros[m]}

DocTasks(sh, q, b) == {Task("doc", q, b, 0, d) : d \in 1..sh.docs}

AllTasks(sh) ==
    QueryTasks(sh)
    \cup UNION {MacroTasks(sh, q, b) \cup DocTasks(sh, q, b) :
                   q \in 1..sh.queries, b \in 1..sh.batches}
    \cup UNION {TermTasks(sh, q, b, m) :
                   q \in 1..sh.queries, b \in 1..sh.batches, m \in 1..Len(sh.macros)}

\* One pool for every task of the call, whichever `with` block submits it.
PoolOfShared(task) == [line |-> 0, q |-> 0, b |-> 0, m |-> 0]

\* The pool a task is submitted to: every `with ThreadPoolExecutor()` block
\* entered makes a pool of its own.
PoolOf(task) ==
    CASE task.kind = "query" -> [line |-> 35, q |-> 0, b |-> 0, m |-> 0]
      [] task.kind = "macro" -> [line |-> 147, q |-> task.q, b |-> task.b, m |-> 0]
      [] task.kind = "term"  -> [line |-> 139, q |-> task.q, b |-> task.b, m |-> task.m]
      [] OTHER               -> [line |-> 85, q |-> task.q, b |-> task.b, m |-> 0]

\* The threads of a pool that are taken.
RunningIn(pool) ==
    Cardinality({task \in DOMAIN nf_task :
                    nf_task[task].st = "running" /\ PoolOf(task) = pool})

NfFinished(task) == nf_task[task].st \in {"done", "failed"}

\* The tasks of the pool a task has open in its current phase.
ChildrenOf(task) ==
    LET w == nf_task[task]
    IN  CASE task.kind = "query" /\ w.phase \in {"build_open", "build_collect"} ->
                 MacroTasks(nf_shape, task.q, w.batch)
          [] task.kind = "query" /\ w.phase \in {"docs_open", "docs_collect"} ->
                 DocTasks(nf_shape, task.q, w.batch)
          [] task.kind = "macro" -> TermTasks(nf_shape, task.q, task.b, task.m)
          [] OTHER -> {}

\* Whether the as_completed loop of the phase reads future.result() inside a
\* try: only the loop over the documents does (lines 88-94).
LoopCatches(task) == task.kind = "query" /\ nf_task[task].phase = "docs_collect"

NfFreshTask ==
    [st |-> "new", phase |-> "none", batch |-> 1, collected |-> {}, raising |-> FALSE]

\* The phase in which a task starts to run.
FirstPhase(task) ==
    CASE task.kind = "query" -> IF nf_shape.batches >= 1 THEN "build_open" ELSE "index"
      [] task.kind = "macro" -> "open"
      [] OTHER -> "work"

InitNested ==
    /\ nf_shape \in NestedCalls
    /\ nf_task = [task \in AllTasks(nf_shape) |-> NfFreshTask]
    /\ nf_main = [phase |-> "start", collected |-> {}]
    /\ SegIdle
    /\ ThemedIdle
    /\ TextIdle
    /\ QueryIdle
    /\ RerankIdle

\* Line 36: the calling thread submits one task per theme query.
nf_main_open ==
    /\ nf_main.phase = "start"
    /\ nf_task' = [task \in DOMAIN nf_task |->
                      IF task \in QueryTasks(nf_shape)
                      THEN [nf_task[task] EXCEPT !.st = "queued"]
                      ELSE nf_task[task]]
    /\ nf_main' = [nf_main EXCEPT !.phase = "collect"]
    /\ UNCHANGED nf_shape
    /\ UNCHANGED <<segVars, themedVars, textVars, queryVars, rerankVars>>

\* A free thread of the pool takes a queued task.
nf_start(task) ==
    /\ nf_task[task].st = "queued"
    /\ RunningIn(PoolOf(task)) < MaxWorkers
    /\ nf_task' = [nf_task EXCEPT ![task].st = "running",
                                  ![task].phase = FirstPhase(task)]
    /\ UNCHANGED <<nf_shape, nf_main>>
    /\ UNCHANGED <<segVars, themedVars, textVars, queryVars, rerankVars>>

\* process_term_set or process_document runs to its end: it returns, or
\* raises (index.analyze raises, the hit has no highlight).
nf_leaf(task) ==
    /\ task.kind \in {"term", "doc"}
    /\ nf_task[task].st = "running"
    /\ \/ nf_task' = [nf_task EXCEPT ![task].st = "done"]
       \/ nf_task' = [nf_task EXCEPT ![task].st = "failed"]
    /\ UNCHANGED <<nf_shape, nf_main>>
    /\ UNCHANGED <<segVars, themedVars, textVars, queryVars, rerankVars>>

\* A task enters a `with ThreadPoolExecutor()` block and submits the tasks
\* of the pool (lines 139-140, 147-148, 85-86).
nf_open(task) ==
    /\ nf_task[task].st = "running"
    /\ nf_task[task].phase \in {"open", "build_open", "docs_open"}
    /\ nf_task' = [x \in DOMAIN nf_task |->
                      IF x \in ChildrenOf(task)
                      THEN [nf_task[x] EXCEPT !.st = "queued"]
                      ELSE IF x = task
                      THEN [nf_task[x] EXCEPT
                               !.phase = CASE @ = "open" -> "collect"
                                           [] @ = "build_open" -> "build_collect"
                                           [] OTHER -> "docs_collect",
                               !.collected = {}]
                      ELSE nf_task[x]]
    /\ UNCHANGED <<nf_shape, nf_main>>
    /\ UNCHANGED <<segVars, themedVars, textVars, queryVars, rerankVars>>

\* One iteration of an as_completed loop: the owner reads the result of a
\* finished task of its pool; the exception of a failed task ends the loop
\* unless the loop catches it.
nf_collect(task, child) ==
    /\ nf_task[task].st = "running"
    /\ nf_task[task].phase \in {"collect", "build_collect", "docs_collect"}
    /\ ~nf_task[task].raising
    /\ child \in ChildrenOf(task) \ nf_task[task].collected
    /\ NfFinished(child)
    /\ nf_task' = [nf_task EXCEPT
          ![task].collected = @ \cup {child},
          ![task].raising = nf_task[child].st = "failed" /\ ~LoopCatches(task)]
    /\ UNCHANGED <<nf_shape, nf_main>>
    /\ UNCHANGED <<segVars, themedVars, textVars, queryVars, rerankVars>>

\* The end of a `with` block: the loop is over (every result read, or an
\* exception on its way out) and shutdown(wait=True) has waited for every
\* task of the pool; then the owner goes on, or the exception leaves it.
nf_join(task) ==
    /\ nf_task[task].st = "running"
    /\ nf_task[task].phase \in {"collect", "build_collect", "docs_collect"}
    /\ nf_task[task].raising \/ nf_task[task].collected = ChildrenOf(task)
    /\ \A child \in ChildrenOf(task) : NfFinished(child)
    /\ nf_task' = [nf_task EXCEPT
          ![task] = IF @.raising THEN [@ EXCEPT !.st = "failed"]
                    ELSE CASE @.phase = "collect" -> [@ EXCEPT !.st = "done"]
                           [] @.phase = "build_collect" -> [@ EXCEPT !.phase = "search"]
                           [] OTHER -> [@ EXCEPT !.phase = "index"]]
    /\ UNCHANGED <<nf_shape, nf_main>>
    /\ UNCHANGED <<segVars, themedVars, textVars, queryVars, rerankVars>>

\* Line 52: the search returns its documents or raises.
nf_search(task) ==
    /\ nf_task[task].st = "running"
    /\ nf_task[task].phase = "search"
    /\ \/ nf_task' = [nf_task EXCEPT ![task].phase = "docs_open"]
       \/ nf_task' = [nf_task EXCEPT ![task].st = "failed"]
    /\ UNCHANGED <<nf_shape, nf_main>>
    /\ UNCHANGED <<segVars, themedVars, textVars, queryVars, rerankVars>>

\* Lines 18-33: the excerpts of the batch are written (a write may raise),
\* then the next batch starts, or process_theme_query returns.
nf_index(task) ==
    /\ nf_task[task].st = "running"
    /\ nf_task[task].phase = "index"
    /\ \/ nf_task' = [nf_task EXCEPT ![task].st = "failed"]
       \/ nf_task' = [nf_task EXCEPT
             ![task] = IF @.batch < nf_shape.batches
                       THEN [@ EXCEPT !.batch = @ + 1, !.phase = "build_open",
                                      !.collected = {}]
                       ELSE [@ EXCEPT !.st = "done"]]
    /\ UNCHANGED <<nf_shape, nf_main>>
    /\ UNCHANGED <<segVars, themedVars, textVars, queryVars, rerankVars>>

\* Lines 38-44: the calling thread reads a finished theme-query task, inside
\* its try.
nf_main_collect(task) ==
    /\ nf_main.phase = "collect"
    /\ task \in QueryTasks(nf_shape) \ nf_main.collected
    /\ NfFinished(task)
    /\ nf_main' = [nf_main EXCEPT !.collected = @ \cup {task}]
    /\ UNCHANGED <<nf_shape, nf_task>>
    /\ UNCHANGED <<segVars, themedVars, textVars, queryVars, rerankVars>>

\* Lines 35-46: the end of the `with` block, then return ids.
nf_main_return ==
    /\ nf_main.phase = "collect"
    /\ nf_main.collected = QueryTasks(nf_shape)
    /\ \A task \in QueryTasks(nf_shape) : NfFinished(task)
    /\ nf_main' = [nf_main EXCEPT !.phase = "returned"]
    /\ UNCHANGED <<nf_shape, nf_task>>
    /\ UNCHANGED <<segVars, themedVars, textVars, queryVars, rerankVars>>

NextNested ==
    \/ nf_main_open
    \/ \E task \in DOMAIN nf_task : nf_start(task)
    \/ \E task \in DOMAIN nf_task : nf_leaf(task)
    \/ \E task \in DOMAIN nf_task : nf_open(task)
    \/ \E task \in DOMAIN nf_task : \E child \in DOMAIN nf_task : nf_collect(task, child)
    \/ \E task \in DOMAIN nf_task : nf_join(task)
    \/ \E task \in DOMAIN nf_task : nf_search(task)
    \/ \E task \in DOMAIN nf_task : nf_index(task)
    \/ \E task \in DOMAIN nf_task : nf_main_collect(task)
    \/ nf_main_return

\* Every call to the backend returns or raises and the scheduler lets every
\* thread that can run take its step: a step that is possible is taken.
SpecNested == InitNested /\ [][NextNested]_vars /\ WF_vars(NextNested)

----------------------------------------------------------------------------
(* Claims about the segmenter (specification SpecSeg)                      *)

SegIdx == 1..Len(raw_segments)

\* The LOC entities of a chunk that match a territory of the state, by
\* their position in doc.ents.
MatchingEnts(reg, text, state_code) ==
    {j \in 1..Len(nlp(text)) :
        /\ nlp(text)[j].label_ = "LOC"
        /\ FirstTerritoryMatch(reg, nlp(text)[j].text, state_code) # <<>>}

\* The territories of the state whose name an entity text contains.
TerritoriesIn(reg, ent_text, state_code) ==
    {i \in 1..Len(reg) : /\ reg[i].state_code = state_code
                         /\ Contains(ent_text, reg[i].territory_name)}

SlugOf(t) == get_territory_slug(t.territory_name, t.state_code)

FallbackSlug == get_territory_slug(AssociationName, "GO")

\* C7 (as claimed): the territory chosen for a chunk is the match of the
\* matching location entity closest to the end of the chunk, that is the
\* first match of the reverse scan.
C7_ChosenIsMatchClosestToEnd ==
    \A i \in SegIdx :
        LET text == raw_segments[i]
            m == MatchingEnts(territories, text, "GO")
        IN  (seg_result[i] # <<>> /\ m # {}) =>
                LET last == CHOOSE j \in m : \A k \in m : k <= j
                IN  seg_result[i][1] =
                        SlugOf(FirstTerritoryMatch(territories, nlp(text)[last].text,
                                                   "GO")[1])

\* C8: a chunk whose only location entity matches exactly one territory of
\* the state resolves to that territory and its state code; a chunk with no
\* matching location entity resolves to the association pseudo-territory
\* with the default state code; every resolved territory other than the
\* fallback is a territory of the state named in a LOC entity of the chunk.
C8_ResolutionAlwaysReturns ==
    \A i \in SegIdx :
        seg_result[i] # <<>> =>
            LET text == raw_segments[i]
                ents == nlp(text)
                locs == {j \in 1..Len(ents) : ents[j].label_ = "LOC"}
                slug == seg_result[i][1]
            IN  /\ \A j \in locs :
                      (locs = {j} /\ Cardinality(TerritoriesIn(territories, ents[j].text, "GO")) = 1)
                          => \E t \in TerritoriesIn(territories, ents[j].text, "GO") :
                                 slug = SlugOf(territories[t])
                /\ (\A j \in locs : TerritoriesIn(territories, ents[j].text, "GO") = {})
                      => slug = FallbackSlug
                /\ slug # FallbackSlug =>
                      \E j \in locs :
                          \E t \in TerritoriesIn(territories, ents[j].text, "GO") :
                              /\ slug = SlugOf(territories[t])
                              /\ territories[t].state_code = "GO"

\* C8 witness: one chunk resolved to the single territory its only location
\* entity names, another resolved to the fallback although a non-location
\* entity and a territory of another state name registry territories.
C8_Witness ==
    \E i, j \in SegIdx :
        /\ seg_result[i] # <<>> /\ seg_result[j] # <<>>
        /\ raw_segments[i] = <<"c1">>
        /\ seg_result[i][1] = get_territory_slug(<<"Goiania">>, "GO")
        /\ raw_segments[j] = <<"c4">>
        /\ seg_result[j][1] = FallbackSlug

\* The chunks of the input that resolve to a slug, as segment texts, in
\* input order.
ChunksOf(slug) ==
    LET InGroup(c) == ResolveSlug(territories, c) = slug
        group == SelectSeq(raw_segments, InGroup)
    IN  [j \in 1..Len(group) |-> NewTerritoryText(group[j])]

ResolvedSlugs == {ResolveSlug(territories, raw_segments[i]) : i \in SegIdx}

\* C9 (as claimed): get_gazette_segments returns one segment per territory
\* group, whose text holds every chunk of the group.
C9_OneSegmentPerGroup ==
    seg_pc = "done" =>
        /\ Len(gazette_segments) = Cardinality(ResolvedSlugs)
        /\ \A slug \in ResolvedSlugs :
              \E k \in 1..Len(gazette_segments) :
                  \A c \in Range(ChunksOf(slug)) :
                      Contains(gazette_segments[k].source_text, strip(c))

\* C10: once the results are collected, the keys of the map are the
\* resolved slugs and the list of each slug is the sequence of the chunks
\* resolving to it, each once, in input order.
C10_PartitionInOrder ==
    seg_pc \in {"build", "done", "raised"} =>
        /\ MapKeys(territory_to_text_map) = ResolvedSlugs
        /\ \A e \in Range(territory_to_text_map) : e.texts = ChunksOf(e.slug)
        /\ \A a, b \in 1..Len(territory_to_text_map) :
              territory_to_text_map[a].slug = territory_to_text_map[b].slug => a = b

\* C10 witness: the workers registered the slugs in another order than the
\* input order, and a group holds two different chunks.
C10_Witness ==
    /\ seg_pc = "build"
    /\ Len(territory_to_text_map) >= 2
    /\ territory_to_text_map[1].slug # ResolveSlug(territories, raw_segments[1])
    /\ \E e \in Range(territory_to_text_map) :
          Len(e.texts) >= 2 /\ e.texts[1] # e.texts[2]

\* C11 (as claimed): the file_checksum of every segment is get_checksum of
\* the source_text the segment stores (the trimmed text).
C11_ChecksumOfStoredText ==
    \A k \in 1..Len(gazette_segments) :
        gazette_segments[k].file_checksum
            = get_checksum(gazette_segments[k].source_text)

\* C12 (as claimed): a returned segment is flagged is_fragmented exactly
\* when its territory group has two or more chunks.
C12_FragmentedIffManyChunks ==
    seg_pc = "done" =>
        \A k \in 1..Len(gazette_segments) :
            gazette_segments[k].is_fragmented
                = (Len(ChunksOf(get_territory_slug(gazette_segments[k].territory_name,
                                                   gazette_segments[k].state_code))) >= 2)

\* The fields of a segment the claim lets differ from the parent gazette.
SegmentOwnFields ==
    {"territory_name", "territory_id", "source_text", "file_checksum", "is_fragmented"}

----------------------------------------------------------------------------
(* Claims about the themed excerpts (SpecThemed, SpecThemedTwice)          *)

\* The ids the workers hold or have handed over.
LocalIds == UNION {Range(th_worker[q].local_ids) : q \in QueryIdx}

CleanLen(text) == TextLen(clean_extra_whitespaces(text))

\* C2 (as claimed): the call returns exactly the ids it wrote to the theme
\* index, whatever write or search failed.
C2_ReturnsExactlyWrittenIds ==
    th_pc = "returned" => Range(th_ids) = {w.id : w \in th_writes}

\* C3: every record of the theme index and every id held or returned
\* belongs to an excerpt whose normalized text has at least 200 characters;
\* a fragment whose normalized text is shorter is under no key, in no id
\* list, and the worker does not raise on it.
C3_LengthFilter ==
    /\ \A k \in DOMAIN theme_index :
          /\ CleanLen(theme_index[k].excerpt) >= MinExcerptLen
          /\ theme_index[k].excerpt_id = k
    /\ \A id \in Range(th_ids) \cup LocalIds : id \in DOMAIN theme_index
    /\ \A b \in th_built :
          CleanLen(b.raw) < MinExcerptLen =>
              /\ b.excerpt_id \notin DOMAIN theme_index
              /\ b.excerpt_id \notin Range(th_ids) \cup LocalIds
    /\ \A q \in QueryIdx :
          (th_worker[q].pc = "raised" /\ th_worker[q].cause = "index") =>
              CleanLen(th_worker[q].excerpts[th_worker[q].pos].excerpt) >= MinExcerptLen

\* C3 witness: the call returned ids after its workers went past a fragment
\* of 150 characters and one of 201 characters that normalizes to 199.
C3_Witness ==
    /\ th_pc = "returned"
    /\ th_ids # <<>>
    /\ \A q \in QueryIdx : th_worker[q].pc = "returned"
    /\ \E b \in th_built : b.raw = F150
    /\ \E b \in th_built : b.raw = F201tail /\ TextLen(b.raw) >= MinExcerptLen

NoWorkerRaised == \A q \in QueryIdx : th_worker[q].pc # "raised"

\* C4: when a call and the call before it, made with the same theme,
\* gazette ids and search results, both finish without a failed backend
\* call, the later call returns the same set of ids and leaves the theme
\* index with the same set of keys as the earlier one.
C4_IdempotentReindexing ==
    (th_pc = "returned" /\ th_prev # <<>> /\ ~th_prev[1].failed /\ NoWorkerRaised) =>
        /\ Range(th_ids) = th_prev[1].ids
        /\ DOMAIN theme_index = th_prev[1].keys

\* C4 witness: a second call returned ids, after a first call that wrote
\* them, neither with a failure.
C4_Witness ==
    /\ th_pc = "returned" /\ th_run = 2
    /\ th_prev # <<>> /\ ~th_prev[1].failed /\ NoWorkerRaised
    /\ Len(th_ids) >= 2
    /\ th_writes # {}
    /\ Len(theme.queries) = 2

\* C5 (as claimed): two excerpts with the same source_file_checksum and the
\* same stored (normalized) excerpt text have the same excerpt_id.
C5_IdFunctionOfStoredText ==
    \A b1, b2 \in th_built :
        (b1.source_file_checksum = b2.source_file_checksum /\ b1.excerpt = b2.excerpt)
            => b1.excerpt_id = b2.excerpt_id

\* C5 (amended): two excerpts with the same source_file_checksum built from
\* the same highlighted fragment, as the backend returned it, have the same
\* excerpt_id, in one call or in two.
C5_IdFunctionOfRawFragment ==
    \A b1, b2 \in th_built :
        (b1.source_file_checksum = b2.source_file_checksum /\ b1.raw = b2.raw)
            => b1.excerpt_id = b2.excerpt_id

\* C5 witness: in a second call a worker has rebuilt an excerpt under a key
\* the first call left in the theme index, and the two queries of the theme
\* have built the same fragment of the same document.
C5_Witness ==
    /\ th_run = 2 /\ th_prev # <<>>
    /\ \E q1, q2 \in QueryIdx :
          /\ q1 # q2
          /\ \E r1 \in Range(th_worker[q1].excerpts) :
                \E r2 \in Range(th_worker[q2].excerpts) :
                    /\ r1.source_file_checksum = r2.source_file_checksum
                    /\ r1.excerpt = r2.excerpt
                    /\ r1.excerpt_id = r2.excerpt_id
                    /\ r1.excerpt_id \in th_prev[1].keys

\* C6 (as claimed): two workers that write under the same excerpt_id in one
\* call write equal records.
C6_ConcurrentWritesIdentical ==
    \A w1, w2 \in th_writes :
        (w1.id = w2.id /\ w1.worker # w2.worker) => w1.doc = w2.doc

----------------------------------------------------------------------------
(* Claims about the text extraction (SpecText)                             *)

TxFailed(g) == tx_worker[g].pc = "failed"

TxReturned(g) == tx_worker[g].pc = "returned"

\* Every id that belongs to a gazette: its own checksum and the checksums of
\* its segments.
IdsOf(g) ==
    {GazetteOf(g).file_checksum}
        \cup Range(tx_worker[g].document_ids)
        \cup {tx_worker[g].segments[j].file_checksum :
                 j \in 1..Len(tx_worker[g].segments)}

\* The call can go on: a worker has a step to take (a worker waiting for its
\* segment tasks has a pending task or a finished one to read), or a
\* finished future is unread, or every future is read and ids is returned.
TxCanStep ==
    \/ \E g \in GazetteKeys :
          tx_worker[g].pc \in {"download", "extract", "upload", "segment", "index", "mark"}
    \/ \E g \in GazetteKeys :
          /\ tx_worker[g].pc = "segments"
          /\ \/ \E j \in 1..Len(tx_worker[g].tasks) : tx_worker[g].tasks[j] = "pending"
             \/ tx_worker[g].k > Len(tx_worker[g].tasks)
             \/ tx_worker[g].tasks[tx_worker[g].k] # "pending"
    \/ \E g \in GazetteKeys :
          g \notin tx_collected /\ tx_worker[g].pc \in {"returned", "failed"}
    \/ tx_collected = GazetteKeys

\* C1: extract_text_from_gazettes is never stuck or stopped by a failing
\* gazette; when it returns, every gazette has run to its end, every gazette
\* that did not fail is marked processed and its ids are returned, no id of
\* a failed gazette is returned, and with only non-aggregated gazettes the
\* number of ids is the number of gazettes that did not fail.
C1_FaultIsolation ==
    /\ tx_pc = "running" => TxCanStep
    /\ tx_pc = "returned" =>
          /\ \A g \in GazetteKeys : TxFailed(g) \/ TxReturned(g)
          /\ \A g \in GazetteKeys :
                TxReturned(g) =>
                    /\ Range(tx_worker[g].document_ids) \subseteq Range(tx_ids)
                    /\ <<GazetteOf(g).id, GazetteOf(g).file_checksum>> \in tx_processed
                    /\ ~gazette_type_is_aggregated(GazetteOf(g)) =>
                          /\ tx_worker[g].document_ids = <<GazetteOf(g).file_checksum>>
                          /\ GazetteOf(g).file_checksum \in DOMAIN tx_index
          /\ \A g \in GazetteKeys : TxFailed(g) => IdsOf(g) \cap Range(tx_ids) = {}
          /\ (\A g \in GazetteKeys : ~gazette_type_is_aggregated(GazetteOf(g))) =>
                Len(tx_ids) = Cardinality(GazetteKeys)
                                - Cardinality({g \in GazetteKeys : TxFailed(g)})

\* C1 witness: the call returned one id for two non-aggregated gazettes, one
\* of which failed at set_gazette_as_processed, after it was indexed.
C1_Witness ==
    /\ tx_pc = "returned"
    /\ Cardinality(GazetteKeys) = 2
    /\ \A g \in GazetteKeys : ~gazette_type_is_aggregated(GazetteOf(g))
    /\ \E g, h \in GazetteKeys :
          /\ TxFailed(g) /\ tx_worker[g].failed_at = "mark"
          /\ GazetteOf(g).file_checksum \in DOMAIN tx_index
          /\ TxReturned(h)
    /\ Len(tx_ids) = 1

\* The segments get_gazette_segments can build for a gazette: those of the
\* build tasks whose registry lookup succeeds (the order in which the
\* workers registered the slugs does not change the set).
BuildableSegments(g) ==
    LET gz == ExtractedGazette(GazetteOf(g))
        chunks == GazetteOf(g).chunks
        items == BuildItems(split_text_by_territory(chunks, tx_territories,
                                                    [i \in 1..Len(chunks) |-> i]))
    IN  {build_segment(items[k].slug, items[k].text, gz, tx_territories)[1] :
            k \in {j \in 1..Len(items) :
                      build_segment(items[j].slug, items[j].text, gz, tx_territories)
                          # <<>>}}

\* No call made for the gazette raised, apart from a registry lookup.
OnlyLookupFailed(g) ==
    /\ tx_worker[g].failed_at \in {"none", "segmentation"}
    /\ \A j \in 1..Len(tx_worker[g].tasks) : tx_worker[g].tasks[j] = "done"

\* C13 (as claimed): when a registry lookup fails while the segments of an
\* aggregated gazette are built (and nothing else fails), the segments of
\* the other territories are indexed and their ids are returned.
C13_LookupFailureIsolated ==
    tx_pc = "returned" =>
        \A g \in GazetteKeys :
            (gazette_type_is_aggregated(GazetteOf(g)) /\ OnlyLookupFailed(g)) =>
                \A seg \in BuildableSegments(g) :
                    /\ seg.file_checksum \in DOMAIN tx_index
                    /\ seg.file_checksum \in Range(tx_ids)

\* C14: a gazette whose text extraction raised has its temporary file
\* removed (once), no raw text in the storage, neither itself nor any of its
\* segments in the index or the storage, is not marked processed, and
\* contributes no id to the result.
C14_ExtractionFailureSkipsDocument ==
    \A g \in GazetteKeys :
        tx_worker[g].failed_at = "extraction" =>
            /\ tx_worker[g].tmp = "removed"
            /\ tx_worker[g].removals = 1
            /\ define_gazette_txt_path(GazetteOf(g)) \notin tx_storage
            /\ GazetteOf(g).file_checksum \notin DOMAIN tx_index
            /\ gazette_type_is_aggregated(GazetteOf(g)) =>
               \A seg \in BuildableSegments(g) :
                  /\ seg.file_checksum \notin DOMAIN tx_index
                  /\ define_segment_txt_path(seg) \notin tx_storage
                  /\ seg.file_checksum \notin Range(tx_ids)
            /\ <<GazetteOf(g).id, GazetteOf(g).file_checksum>> \notin tx_processed
            /\ tx_worker[g].result = <<>>
            /\ IdsOf(g) \cap Range(tx_ids) = {}

\* C14 witness: the call returned; the extraction of an aggregated gazette
\* raised and a sibling gazette was indexed and returned its id.
C14_Witness ==
    /\ tx_pc = "returned"
    /\ \E g, h \in GazetteKeys :
          /\ tx_worker[g].failed_at = "extraction"
          /\ gazette_type_is_aggregated(GazetteOf(g))
          /\ BuildableSegments(g) # {}
          /\ TxReturned(h)
          /\ GazetteOf(h).file_checksum \in Range(tx_ids)

\* Territory identifiers the classification is tried on: with and without
\* the sentinel suffix, shorter than the suffix, with whitespace around it.
TerritoryIdSamples ==
    {IdAssociation, IdGoiania, IdAnapolis, IdGoias,
     <<"0", "0", "0", "0", "0">>,
     <<"5", "2", "1", "0", "0", "0", "0">>,
     <<"0", "0", "0", "0">>,
     <<"2", "7", "0", "0", "0", "0", " ">>,
     <<"2", "7", " ", "0", "0", "0", "0">>,
     <<"2", "7", "0", "0", "0", "0", "0", "1">>}

FiveZeros == <<"0", "0", "0", "0", "0">>

\* The last 5 characters of the identifier are 00000.
EndsInSentinel(id) ==
    Len(id) >= Len(FiveZeros) /\ SubSeq(id, Len(id) - Len(FiveZeros) + 1, Len(id)) = FiveZeros

TxMarked(g) == <<GazetteOf(g).id, GazetteOf(g).file_checksum>> \in tx_processed

\* C17: a step that leaves a gazette marked processed leaves its raw text
\* uploaded, none of its segment tasks in flight and its worker returned; a
\* worker that raised is not marked; and once a gazette is marked its
\* worker takes no further step (it is marked at most once).
C17_MarkedLastAndOnce ==
    [][\A g \in GazetteKeys :
          /\ TxMarked(g)' =>
                /\ define_gazette_txt_path(GazetteOf(g)) \in tx_storage'
                /\ \A j \in 1..Len(tx_worker'[g].tasks) :
                      tx_worker'[g].tasks[j] # "pending"
                /\ tx_worker'[g].k > Len(tx_worker'[g].tasks)
                /\ tx_worker'[g].pc = "returned"
          /\ tx_worker'[g].pc = "failed" => ~TxMarked(g)'
          /\ TxMarked(g) => tx_worker'[g] = tx_worker[g]]_vars

\* C17 witness: an aggregated gazette is marked processed after two segment
\* tasks, one of which failed, while the worker of a sibling gazette raised
\* at its upload.
C17_Witness ==
    \E g, h \in GazetteKeys :
        /\ TxMarked(g)
        /\ Len(tx_worker[g].tasks) = 2
        /\ tx_worker[g].tasks[1] = "failed_index"
        /\ tx_worker[g].tasks[2] = "done"
        /\ tx_worker[h].failed_at = "upload"
        /\ ~TxMarked(h)

\* C19 (as claimed): when the call has returned, the ids it returns are
\* exactly the ids under which the index was written.
C19_IdsAccountForIndexWrites ==
    tx_pc = "returned" => DOMAIN tx_index = Range(tx_ids)

\* The phrase the claim asks for a term: an in-order, adjacent sequence of
\* one clause per token of the term, in tokenizer order.
IsPhraseOf(block, term) ==
    /\ DOMAIN block = {"span_near"}
    /\ block.span_near.in_order = TRUE
    /\ block.span_near.slop = 0
    /\ Len(block.span_near.clauses) = Len(analyze(term))
    /\ \A i \in 1..Len(analyze(term)) :
          block.span_near.clauses[i]
              = [span_term |-> [source_text_with_stopwords |-> analyze(term)[i].token]]

\* An alternation block with exactly one phrase per synonym of the term-set.
IsAlternationOf(block, term_set) ==
    /\ DOMAIN block = {"span_or"}
    /\ Len(block.span_or.clauses) = Len(term_set)
    /\ \E p \in Perms(Len(term_set)) :
          \A i \in 1..Len(term_set) : IsPhraseOf(block.span_or.clauses[i], term_set[p[i]])

\* An unordered proximity block with exactly one alternation block per
\* term-set of the macro-set.
IsProximityOf(block, macro_set) ==
    /\ DOMAIN block = {"span_near"}
    /\ block.span_near.in_order = FALSE
    /\ Len(block.span_near.clauses) = Len(macro_set)
    /\ \E p \in Perms(Len(macro_set)) :
          \A i \in 1..Len(macro_set) :
              IsAlternationOf(block.span_near.clauses[i], macro_set[p[i]])

\* C15: the query returned has one top-level OR block whose clauses are, in
\* some order, exactly one proximity block per macro-set, each made of
\* exactly one alternation block per term-set of that macro-set, each made
\* of exactly one phrase per synonym, with the term's tokens in tokenizer
\* order; the filter holds the gazette ids.
C15_QueryShape ==
    qb_pc = "returned" =>
        /\ Len(qb_es_query) = 1
        /\ LET must == qb_es_query[1].query.bool.must
           IN  /\ Len(must) = 1
               /\ DOMAIN must[1] = {"span_or"}
               /\ Len(must[1].span_or.clauses) = Len(qb_term_sets)
               /\ \E p \in Perms(Len(qb_term_sets)) :
                     \A m \in 1..Len(qb_term_sets) :
                         IsProximityOf(must[1].span_or.clauses[m], qb_term_sets[p[m]])
        /\ qb_es_query[1].query.bool.filter.ids.values = QueryGazetteIds

\* C15 witness: the query of one macro-set of two term-sets of two synonyms
\* each was returned, the second term-set having finished first: one
\* proximity block of two alternation blocks of two phrases each.
C15_Witness ==
    /\ qb_pc = "returned"
    /\ qb_term_sets = QueryOneMacro
    /\ LET prox == qb_es_query[1].query.bool.must[1].span_or.clauses
       IN  /\ Len(prox) = 1
           /\ Len(prox[1].span_near.clauses) = 2
           /\ Len(prox[1].span_near.clauses[1].span_or.clauses) = 2
           /\ Len(prox[1].span_near.clauses[2].span_or.clauses) = 2
           /\ IsAlternationOf(prox[1].span_near.clauses[1], QueryOneMacro[1][2])

RrScoreOf(excerpt_text) ==
    <<"score", excerpt_text, <<"t1", "t2">>>>

\* The call can go on: a task has a step to take, or a finished task is
\* unread, or every task is read.
RrCanStep ==
    \/ \E i \in RrIdx : rr_worker[i].pc \in {"get", "score"}
    \/ \E i \in RrIdx : i \notin rr_collected
    \/ rr_collected = RrIdx

\* C20: the index keeps its set of keys; every record keeps every field but
\* excerpt_embedding_score, under its own excerpt_id; a task that finished
\* its write leaves the score of its excerpt under its id; an id without a
\* record leads to no write; the call raises only before any task started,
\* a failed task stops neither the others nor the call, and when the call
\* returns every task has run to its end.
C20_ScoreWrittenBack ==
    /\ DOMAIN rr_index = DOMAIN rr_index0
    /\ \A k \in DOMAIN rr_index :
          /\ DOMAIN rr_index[k] = DOMAIN rr_index0[k] \cup
                (IF rr_index[k] = rr_index0[k] THEN {} ELSE {"excerpt_embedding_score"})
          /\ \A f \in DOMAIN rr_index0[k] \ {"excerpt_embedding_score"} :
                rr_index[k][f] = rr_index0[k][f]
          /\ rr_index[k].excerpt_id = k
          /\ rr_index[k] # rr_index0[k] =>
                /\ \E i \in RrIdx : rr_excerpt_ids[i] = k /\ rr_worker[i].pc = "done"
                /\ rr_index[k].excerpt_embedding_score = RrScoreOf(rr_index0[k].excerpt)
    /\ \A i \in RrIdx :
          /\ rr_worker[i].pc = "done" =>
                /\ rr_excerpt_ids[i] \in DOMAIN rr_index0
                /\ rr_index[rr_excerpt_ids[i]].excerpt_embedding_score
                      = RrScoreOf(rr_index0[rr_excerpt_ids[i]].excerpt)
          /\ rr_excerpt_ids[i] \notin DOMAIN rr_index0 =>
                rr_worker[i].pc \in {"get", "none", "failed"}
    /\ rr_pc = "raised" => \A i \in RrIdx : rr_worker[i].pc = "get"
    /\ rr_pc = "running" => RrCanStep
    /\ rr_pc = "returned" =>
          \A i \in RrIdx : rr_worker[i].pc \in {"done", "none", "failed"}

\* C20 witness: the call returned after two tasks of the same id each wrote
\* the record back with its score.
C20_Witness ==
    /\ rr_pc = "returned"
    /\ Len(rr_excerpt_ids) = 2
    /\ rr_excerpt_ids[1] = rr_excerpt_ids[2]
    /\ rr_worker[1].pc = "done" /\ rr_worker[2].pc = "done"
    /\ rr_index[rr_excerpt_ids[1]] # rr_index0[rr_excerpt_ids[1]]

\* C22 (as claimed): when try_process_gazette_file has finished for a
\* gazette, by a return or by an exception, the temporary file of the
\* gazette has been removed, and removed once.
C22_TmpRemovedOnEveryPath ==
    \A g \in GazetteKeys :
        tx_worker[g].pc \in {"returned", "failed"} =>
            /\ tx_worker[g].tmp = "removed"
            /\ tx_worker[g].removals = 1

NfReturnedAndJoined ==
    /\ nf_main.phase = "returned"
    /\ \A task \in DOMAIN nf_task : nf_task[task].st \in {"new", "done", "failed"}

\* C21: under fair scheduling, with every backend call returning or
\* raising, the call eventually returns, and then no task of any of its
\* pools is queued or running.
C21_NestedFanOutReturns == <>NfReturnedAndJoined

\* C21 witness: the call returned after a theme query went through its
\* macro-set, term-set and document pools, each pool having one thread, and
\* after a term-set task of another query or batch had raised.
C21_Witness ==
    /\ nf_main.phase = "returned"
    /\ \E task \in DOMAIN nf_task :
          /\ task.kind = "query" /\ nf_task[task].st = "done"
    /\ \E task \in DOMAIN nf_task : task.kind = "term" /\ nf_task[task].st = "failed"
    /\ \E task \in DOMAIN nf_task : task.kind = "doc" /\ nf_task[task].st = "done"
    /\ \E task \in DOMAIN nf_task : task.kind = "macro" /\ nf_task[task].st = "done"

====
